---- MODULE Spec2Model ----
(***************************************************************************)
(* Model of the Search Listings Items client (ibnjunaid/seller-sp-api):    *)
(* the Joi parameter validator (validators), the query serializer and the  *)
(* request operation of AmazonSpApiClient (client), and the error          *)
(* normalizer createSpApiErrorFromAxiosError (errors).                     *)
(*                                                                         *)
(* A text handed in by the caller is a sequence of pieces, each piece one   *)
(* reserved character (" ", ":", "/") or a run of other characters, so     *)
(* that trimming, percent-encoding and the stripping of a trailing slash   *)
(* are computed; enumerated values,                                        *)
(* messages and produced text are TLA+ strings.  A parameter or header     *)
(* object is a function whose DOMAIN is the set of its own keys: a key     *)
(* that is absent is not in the DOMAIN.                                    *)
(***************************************************************************)
EXTENDS Integers, Sequences, FiniteSets, TLC

VARIABLES
    baseUrl,          \* AmazonSpApiClient.baseUrl
    timeout,          \* AmazonSpApiClient.timeout
    defaultHeaders,   \* AmazonSpApiClient.defaultHeaders
    pc,               \* position of the searchListingsItems invocation
    params,           \* argument of the invocation in progress
    gets,             \* axios.get calls issued by the invocation in progress
    request,          \* <<>> or <<the request handed to axios.get>>
    answer,           \* <<>> or <<what the transport answered>>
    result,           \* what the invocation returned or threw
    vParams,          \* validator under test: its input
    vResult,          \* validator under test: <<>> or <<{error, value}>>
    vThrown,          \* validator under test: <<>> or <<outcome of ...OrThrow>>
    nError,           \* normalizer under test: the AxiosError handed in
    nResult,          \* normalizer under test: <<>> or <<SpApiClientError>>
    op,               \* the last operation on the client: its name and argument
    made,             \* <<>> or <<what the last new AmazonSpApiClient(..) gave>>
    snapshot,         \* <<>> or <<the object the last getConfig() returned>>
    eError,           \* SpApiClientError under test
    eIs,              \* <<>> or <<what its four is...Error() methods return>>
    calls,            \* the invocations that run side by side, by number
    derived           \* <<>> or <<the client a withConfig call returned>>

vars == <<baseUrl, timeout, defaultHeaders, pc, params, gets, request, answer,
          result, vParams, vResult, vThrown, nError, nResult, op, made,
          snapshot, eError, eIs, calls, derived>>

clientVars == <<baseUrl, timeout, defaultHeaders>>
callVars == <<pc, params, gets, request, answer, result>>
validatorVars == <<vParams, vResult, vThrown>>
normalizerVars == <<nError, nResult>>
lifeVars == <<op, made, snapshot>>
errorVars == <<eError, eIs>>
concurrentVars == <<calls, derived>>

(***************************************************************************)
(* Bounds of the model.                                                    *)
(***************************************************************************)
\* How far past a documented limit the enumerated inputs go.
MaxOver == 1

(***************************************************************************)
(* Strings and objects.                                                    *)
(***************************************************************************)
None == [k \in {} |-> 0]

Has(o, k) == k \in DOMAIN o

RECURSIVE TrimStart(_)
TrimStart(s) == IF s # <<>> /\ Head(s) = " " THEN TrimStart(Tail(s)) ELSE s

RECURSIVE TrimEnd(_)
TrimEnd(s) ==
    IF s # <<>> /\ s[Len(s)] = " " THEN TrimEnd(SubSeq(s, 1, Len(s) - 1)) ELSE s

\* String.prototype.trim as Joi's string().trim() applies it when converting.
Trim(s) == TrimEnd(TrimStart(s))

\* The text of a sequence of pieces.
RECURSIVE Text(_)
Text(s) == IF s = <<>> THEN "" ELSE Head(s) \o Text(Tail(s))

\* Array.prototype.join over TLA+ strings.
RECURSIVE Join(_, _)
Join(xs, sep) ==
    IF xs = <<>> THEN ""
    ELSE IF Len(xs) = 1 THEN xs[1]
    ELSE xs[1] \o sep \o Join(Tail(xs), sep)

\* Array.prototype.filter, by a set that holds the kept elements.
RECURSIVE Filter(_, _)
Filter(xs, keep) ==
    IF xs = <<>> THEN <<>>
    ELSE (IF Head(xs) \in keep THEN <<Head(xs)>> ELSE <<>>) \o Filter(Tail(xs), keep)

RECURSIVE Flatten(_)
Flatten(xss) == IF xss = <<>> THEN <<>> ELSE Head(xss) \o Flatten(Tail(xss))

(***************************************************************************)
(* Parameter Validator: searchListingsItemsQueryParamsSchema.              *)
(***************************************************************************)
IdentifierTypes == {"SKU", "ASIN", "EAN", "FNSKU", "GTIN", "ISBN", "JAN", "MINSAN", "UPC"}
IncludedDataTypes ==
    {"summaries", "attributes", "issues", "offers", "fulfillmentAvailability",
     "procurement", "relationships", "productTypes"}
IssueSeverities == {"ERROR", "WARNING", "INFO"}
ListingStatuses == {"BUYABLE", "DISCOVERABLE"}
SortBys == {"sku", "createdDate", "lastUpdatedDate"}
SortOrders == {"ASC", "DESC"}

MarketplaceIdsMin == 1
MarketplaceIdsMax == 1
IdentifiersMax == 20
PageSizeMin == 1
PageSizeMax == 20

\* The date-time texts the model hands in that Joi's isoDate() accepts.
IsoDates ==
    {<<"2023-01-01T00", ":", "00", ":", "00Z">>, <<"2024-06-30T12", ":", "00", ":", "00Z">>}

\* The messages the schema sets with .messages(), by field and Joi error type.
SchemaMessages ==
    [sellerId |->
        [string_empty |-> "sellerId is required and cannot be empty",
         any_required |-> "sellerId is required"],
     marketplaceIds |->
        [array_min |-> "marketplaceIds must contain at least one marketplace ID",
         array_max |-> "marketplaceIds can contain at most 1 marketplace ID",
         any_required |-> "marketplaceIds is required"],
     includedData |->
        [any_only |-> "includedData must contain only valid values: summaries, attributes, issues, offers, fulfillmentAvailability, procurement, relationships, productTypes"],
     identifiers |-> [array_max |-> "identifiers can contain at most 20 items"],
     identifiersType |->
        [any_only |-> "identifiersType must be one of: SKU, ASIN, EAN, FNSKU, GTIN, ISBN, JAN, MINSAN, UPC"],
     createdAfter |->
        [string_isoDate |-> "createdAfter must be a valid ISO 8601 date-time string"],
     createdBefore |->
        [string_isoDate |-> "createdBefore must be a valid ISO 8601 date-time string"],
     lastUpdatedAfter |->
        [string_isoDate |-> "lastUpdatedAfter must be a valid ISO 8601 date-time string"],
     lastUpdatedBefore |->
        [string_isoDate |-> "lastUpdatedBefore must be a valid ISO 8601 date-time string"],
     withIssueSeverity |->
        [any_only |-> "withIssueSeverity must contain only valid values: ERROR, WARNING, INFO"],
     withStatus |->
        [any_only |-> "withStatus must contain only valid values: BUYABLE, DISCOVERABLE"],
     withoutStatus |->
        [any_only |-> "withoutStatus must contain only valid values: BUYABLE, DISCOVERABLE"],
     sortBy |-> [any_only |-> "sortBy must be one of: sku, createdDate, lastUpdatedDate"],
     sortOrder |-> [any_only |-> "sortOrder must be either ASC or DESC"],
     pageSize |->
        [number_min |-> "pageSize must be between 1 and 20",
         number_max |-> "pageSize must be between 1 and 20"]]

\* One entry of Joi's error.details: the field the schema key names, the path of
\* the offending value, Joi's error type and the message (the schema's own when
\* it sets one for that type, Joi's default text otherwise).
Detail(field, path, type, default) ==
    [field |-> field, path |-> path, type |-> type,
     message |-> IF Has(SchemaMessages, field) /\ Has(SchemaMessages[field], type)
                 THEN SchemaMessages[field][type]
                 ELSE "\"" \o path \o "\" " \o default]

ItemPath(field, i) == field \o "[" \o ToString(i - 1) \o "]"

\* A mutant of StringErrors: the value is not trimmed before the check.
StringErrorsUntrimmed(field, path, v) ==
    IF v = <<>>
    THEN <<Detail(field, path, "string_empty", "is not allowed to be empty")>>
    ELSE <<>>

\* Joi.string().trim() [.min(1)] on a value: the value is trimmed first and an
\* empty text is refused.
StringErrors(field, path, v) ==
    IF Trim(v) = <<>>
    THEN <<Detail(field, path, "string_empty", "is not allowed to be empty")>>
    ELSE <<>>

\* Joi.string().valid(...) on a value.
ValidErrors(field, path, v, allowed) ==
    IF v \in allowed THEN <<>>
    ELSE <<Detail(field, path, "any_only", "must be one of the allowed values")>>

\* Joi.string().isoDate() on a value.
IsoDateErrors(field, v) ==
    IF v \in IsoDates THEN <<>>
    ELSE <<Detail(field, field, "string_isoDate", "must be in iso format")>>

\* Joi.array().items(Joi.string().trim().min(1)) with optional .min() and .max():
\* the items are checked first and an item error ends the array's check; the
\* length rules run in the order the schema states them.
StringArrayErrors(field, a, min, max) ==
    LET items == Flatten([i \in 1..Len(a) |-> StringErrors(field, ItemPath(field, i), a[i])])
        tooFew == IF Len(a) < min
                  THEN <<Detail(field, field, "array_min", "has too few items")>>
                  ELSE <<>>
        tooMany == IF Len(a) > max
                   THEN <<Detail(field, field, "array_max", "has too many items")>>
                   ELSE <<>>
    IN  IF items # <<>> THEN items ELSE tooFew \o tooMany

\* Joi.array().items(Joi.string().valid(...)).
ValidArrayErrors(field, a, allowed) ==
    Flatten([i \in 1..Len(a) |-> ValidErrors(field, ItemPath(field, i), a[i], allowed)])

\* A mutant of NumberErrors: the upper limit is off by one.
NumberErrorsOffByOne(field, n, min, max) ==
    (IF n < min THEN <<Detail(field, field, "number_min", "is too small")>> ELSE <<>>)
    \o (IF n > max + 1 THEN <<Detail(field, field, "number_max", "is too large")>> ELSE <<>>)

\* Joi.number().integer().min(..).max(..) on an integer.
NumberErrors(field, n, min, max) ==
    (IF n < min THEN <<Detail(field, field, "number_min", "is too small")>> ELSE <<>>)
    \o (IF n > max THEN <<Detail(field, field, "number_max", "is too large")>> ELSE <<>>)

Required(field, p, errs) ==
    IF Has(p, field) THEN errs
    ELSE <<Detail(field, field, "any_required", "is required")>>

\* The errors of every key of the schema, in the order the schema lists the keys.
FieldErrors(p) ==
    LET opt(field, errs) == IF Has(p, field) THEN errs ELSE <<>>
    IN  Required("sellerId", p, StringErrors("sellerId", "sellerId", p.sellerId))
        \o Required("marketplaceIds", p,
               StringArrayErrors("marketplaceIds", p.marketplaceIds,
                                 MarketplaceIdsMin, MarketplaceIdsMax))
        \o opt("issueLocale", StringErrors("issueLocale", "issueLocale", p.issueLocale))
        \o opt("includedData",
               ValidArrayErrors("includedData", p.includedData, IncludedDataTypes))
        \o opt("identifiers",
               StringArrayErrors("identifiers", p.identifiers, 0, IdentifiersMax))
        \o opt("identifiersType",
               ValidErrors("identifiersType", "identifiersType", p.identifiersType,
                           IdentifierTypes))
        \o opt("variationParentSku",
               StringErrors("variationParentSku", "variationParentSku",
                            p.variationParentSku))
        \o opt("packageHierarchySku",
               StringErrors("packageHierarchySku", "packageHierarchySku",
                            p.packageHierarchySku))
        \o opt("createdAfter", IsoDateErrors("createdAfter", p.createdAfter))
        \o opt("createdBefore", IsoDateErrors("createdBefore", p.createdBefore))
        \o opt("lastUpdatedAfter", IsoDateErrors("lastUpdatedAfter", p.lastUpdatedAfter))
        \o opt("lastUpdatedBefore", IsoDateErrors("lastUpdatedBefore", p.lastUpdatedBefore))
        \o opt("withIssueSeverity",
               ValidArrayErrors("withIssueSeverity", p.withIssueSeverity, IssueSeverities))
        \o opt("withStatus", ValidArrayErrors("withStatus", p.withStatus, ListingStatuses))
        \o opt("withoutStatus",
               ValidArrayErrors("withoutStatus", p.withoutStatus, ListingStatuses))
        \o opt("sortBy", ValidErrors("sortBy", "sortBy", p.sortBy, SortBys))
        \o opt("sortOrder", ValidErrors("sortOrder", "sortOrder", p.sortOrder, SortOrders))
        \o opt("pageSize", NumberErrors("pageSize", p.pageSize, PageSizeMin, PageSizeMax))
        \o opt("pageToken", StringErrors("pageToken", "pageToken", p.pageToken))

TrimmedFields ==
    {"sellerId", "issueLocale", "variationParentSku", "packageHierarchySku", "pageToken"}
TrimmedArrayFields == {"marketplaceIds", "identifiers"}

\* The value Joi hands on: every .trim() applied.
Converted(p) ==
    [f \in DOMAIN p |->
        IF f \in TrimmedFields THEN Trim(p[f])
        ELSE IF f \in TrimmedArrayFields THEN [i \in 1..Len(p[f]) |-> Trim(p[f][i])]
        ELSE p[f]]

ExclusiveNames == <<"identifiers", "variationParentSku", "packageHierarchySku">>

\* A mutant of identifiersTypeRequired: the length of identifiers is not looked at.
identifiersTypeRequiredAnyLength(value) ==
    /\ Has(value, "identifiers")
    /\ ~Has(value, "identifiersType") \/ value.identifiersType = ""

\* The condition of the first check of the .custom() rule:
\* value.identifiers && value.identifiers.length > 0 && !value.identifiersType.
identifiersTypeRequired(value) ==
    /\ Has(value, "identifiers") /\ Len(value.identifiers) > 0
    /\ ~Has(value, "identifiersType") \/ value.identifiersType = ""

\* A mutant of exclusiveParams: identifiers counts as soon as it is present.
exclusiveParamsAnyLength(value) ==
    Filter(ExclusiveNames,
           {n \in {"identifiers", "variationParentSku", "packageHierarchySku"} :
               Has(value, n) /\ (n # "identifiers" => value[n] # <<>>)})

\* The names of the exclusive parameters that have a value, in the order of
\* the list the rule filters.
exclusiveParams(value) ==
    LET hasValue ==
            (IF Has(value, "identifiers") /\ Len(value.identifiers) > 0
             THEN {"identifiers"} ELSE {})
            \cup (IF Has(value, "variationParentSku") /\ value.variationParentSku # <<>>
                  THEN {"variationParentSku"} ELSE {})
            \cup (IF Has(value, "packageHierarchySku") /\ value.packageHierarchySku # <<>>
                  THEN {"packageHierarchySku"} ELSE {})
    IN  Filter(ExclusiveNames, hasValue)

\* The .custom() rule of the schema, on the converted value: <<>> when it
\* returns the value, the one error it returns otherwise.
CustomErrors(value) ==
    IF identifiersTypeRequired(value)
    THEN <<[field |-> "", path |-> "", type |-> "custom_identifiersTypeRequired",
            message |-> "identifiersType is required when identifiers are provided"]>>
    ELSE IF Len(exclusiveParams(value)) > 1
    THEN <<[field |-> "", path |-> "", type |-> "custom_mutuallyExclusive",
            message |-> "Cannot use multiple exclusive parameters: "
                        \o Join(exclusiveParams(value), ", ")
                        \o ". Use only one of: identifiers, variationParentSku, or packageHierarchySku"]>>
    ELSE <<>>

\* schema.validate(params) is called with no options, so Joi's abortEarly is on.
abortEarly == TRUE

\* Joi's error.details for the schema: key errors end the check before the
\* .custom() rule runs, and with abortEarly the first error ends it.
JoiDetails(p) ==
    LET keys == FieldErrors(p)
        all == IF keys # <<>> THEN keys ELSE CustomErrors(Converted(p))
    IN  IF abortEarly /\ all # <<>> THEN <<Head(all)>> ELSE all

\* validateSearchParams: {error, value}; error is <<>> or <<details>>.
validateSearchParams(p) ==
    LET details == JoiDetails(p)
    IN  [error |-> IF details = <<>> THEN <<>> ELSE <<details>>,
         value |-> Converted(p)]

\* A mutant of validateSearchParamsOrThrow: the error of the .custom() rule is
\* not thrown.
validateSearchParamsOrThrowKeysOnly(p) ==
    IF FieldErrors(p) # <<>>
    THEN <<[name |-> "Error",
            message |-> "Validation failed: " \o FieldErrors(p)[1].message,
            details |-> <<FieldErrors(p)[1]>>]>>
    ELSE <<>>

Messages(details) == [i \in 1..Len(details) |-> details[i].message]

\* validateSearchParamsOrThrow: <<>> when it returns, <<the Error thrown>> otherwise.
validateSearchParamsOrThrow(p) ==
    LET error == validateSearchParams(p).error
    IN  IF error # <<>>
        THEN <<[name |-> "Error",
                message |-> "Validation failed: " \o Join(Messages(error[1]), ", "),
                details |-> error[1]]>>
        ELSE <<>>

(***************************************************************************)
(* The parameter records handed in.  Each field is absent or takes one of  *)
(* the listed values; the fields are crossed in groups so that every rule  *)
(* meets every other rule of its group.                                    *)
(***************************************************************************)
Opt(field, values) == {None} \cup {field :> v : v \in values}

Blank == <<" ">>
S1 == <<"S", "1">>
S1Padded == <<" ", "S", "1", " ">>
M1Padded == <<" ", "M", "1">>

\* n distinct texts: <<name, "1">>, <<name, "2">>, ...
Texts(name, n) == [i \in 1..n |-> <<name, ToString(i)>>]

SellerIdValues == {<<>>, Blank, S1, S1Padded}
MarketplaceIdsValues ==
    {Texts("M", n) : n \in 0..(MarketplaceIdsMax + MaxOver)}
    \cup {<<<<>>>>, <<Blank>>, <<M1Padded>>}
IdentifiersValues ==
    {Texts("X", n) : n \in {0, 1, 2} \cup (IdentifiersMax..(IdentifiersMax + MaxOver))}
    \cup {<<Blank>>}
IdentifiersTypeValues == {"ASIN", "SKU", "INVALID_TYPE", ""}
SkuValues == {<<"P">>, <<>>}
PageSizeValues == (PageSizeMin - MaxOver)..(PageSizeMax + MaxOver)
DateValues == {<<"2023-01-01T00", ":", "00", ":", "00Z">>, <<"not-a-date">>}

MinimalParams == ("sellerId" :> S1) @@ ("marketplaceIds" :> Texts("M", 1))

\* The required fields and the fields of the two cross-field rules.
CoreParams ==
    {a @@ b @@ c @@ d @@ e @@ f :
        a \in Opt("sellerId", SellerIdValues),
        b \in Opt("marketplaceIds", MarketplaceIdsValues),
        c \in Opt("identifiers", IdentifiersValues),
        d \in Opt("identifiersType", IdentifiersTypeValues),
        e \in Opt("variationParentSku", SkuValues),
        f \in Opt("packageHierarchySku", {<<"H">>})}

\* The fields with enumerated elements.
EnumParams ==
    {MinimalParams @@ a @@ b @@ c @@ d @@ e @@ f :
        a \in Opt("includedData",
                  {<<>>, <<"summaries">>, <<"summaries", "issues">>, <<"bogus">>,
                   <<"offers", "bogus">>}),
        b \in Opt("withIssueSeverity", {<<"ERROR">>, <<"INFO", "WARNING">>, <<"FATAL">>}),
        c \in Opt("withStatus", {<<"BUYABLE">>, <<"SOLD">>}),
        d \in Opt("withoutStatus", {<<"DISCOVERABLE", "BUYABLE">>, <<"SOLD">>}),
        e \in Opt("sortBy", {"sku", "lastUpdatedDate", "price"}),
        f \in Opt("sortOrder", {"ASC", "DESC", "INVALID"})}

\* The timestamps and the free-text fields.
TextParams ==
    {MinimalParams @@ a @@ b @@ c @@ d @@ e @@ f @@ g :
        a \in Opt("createdAfter", DateValues),
        b \in Opt("createdBefore", {<<"2024-06-30T12", ":", "00", ":", "00Z">>}),
        c \in Opt("lastUpdatedAfter", {<<"2023-01-01T00", ":", "00", ":", "00Z">>}),
        d \in Opt("lastUpdatedBefore", DateValues),
        e \in Opt("issueLocale", {<<"e", "n">>, Blank}),
        f \in Opt("pageToken", {<<"T", " ", "k">>, <<>>}),
        g \in Opt("pageSize", {PageSizeMin, PageSizeMax + MaxOver})}

\* pageSize against other scalar rules and a broken required field.
PageParams ==
    {a @@ ("marketplaceIds" :> Texts("M", 1)) @@ b @@ c @@ d :
        a \in Opt("sellerId", {S1, <<>>}) \ {None},
        b \in Opt("pageSize", PageSizeValues),
        c \in Opt("sortOrder", {"DESC", "INVALID"}),
        d \in Opt("identifiersType", {"ASIN", "INVALID_TYPE"})}

ParamSet == CoreParams \cup EnumParams \cup TextParams \cup PageParams

\* The records the client is called with.
CallParams == CoreParams \cup TextParams \cup PageParams

(***************************************************************************)
(* The validator on its own: one input, validated once.                    *)
(***************************************************************************)
\* No operation on the configuration has been recorded.
IdleLife ==
    /\ op = [name |-> "none"]
    /\ made = <<>>
    /\ snapshot = <<>>

IdleError ==
    /\ eError = None
    /\ eIs = <<>>

\* The largest number of invocations that run side by side.
MaxInvocations == 2

Invocations == 1..MaxInvocations

\* An invocation that has not been made, or whose outcome the caller has.
IdleInvocation ==
    [client |-> "none", pc |-> "idle", params |-> None, request |-> <<>>,
     answer |-> <<>>, result |-> [kind |-> "none"]]

\* No invocation runs and no client has been derived.
IdleConcurrent ==
    /\ calls = [i \in Invocations |-> IdleInvocation]
    /\ derived = <<>>

IdleCall ==
    /\ pc = "idle"
    /\ params = None
    /\ gets = 0
    /\ request = <<>>
    /\ answer = <<>>
    /\ result = [kind |-> "none"]

InitClient ==
    /\ baseUrl = <<"https", ":", "/", "/", "sellingpartnerapi-na.amazon.com">>
    /\ timeout = 30000
    /\ defaultHeaders = ("Content-Type" :> "application/json")
                        @@ ("Accept" :> "application/json")

InitValidator ==
    /\ InitClient
    /\ IdleCall
    /\ vParams \in ParamSet
    /\ vResult = <<>>
    /\ vThrown = <<>>
    /\ nError = None
    /\ nResult = <<>>
    /\ IdleLife
    /\ IdleError
    /\ IdleConcurrent

\* validateSearchParamsOrThrow(vParams), keeping what validateSearchParams gave it.
Validate ==
    /\ vResult = <<>>
    /\ vResult' = <<validateSearchParams(vParams)>>
    /\ vThrown' = <<validateSearchParamsOrThrow(vParams)>>
    /\ UNCHANGED <<vParams, clientVars, callVars, normalizerVars, lifeVars, errorVars, concurrentVars>>

NextValidator == Validate

SpecValidator == InitValidator /\ [][NextValidator]_vars

(***************************************************************************)
(* JavaScript values of a response body, tagged by their type.  An object  *)
(* is the sequence of its <<key, value>> entries in insertion order.       *)
(***************************************************************************)
JUndefined == [t |-> "undefined"]
JNull == [t |-> "null"]
JBool(b) == [t |-> "boolean", b |-> b]
JNum(n) == [t |-> "number", n |-> n]
JStr(s) == [t |-> "string", s |-> s]
\* The number n + 0.5: a number that is no integer.
JHalf(n) == [t |-> "number", n |-> n, half |-> TRUE]
JArr(a) == [t |-> "array", a |-> a]
JObj(o) == [t |-> "object", o |-> o]

\* ToBoolean: what `x ? .. : ..`, `x && ..` and `x || ..` test.
Truthy(j) ==
    CASE j.t \in {"undefined", "null"} -> FALSE
      [] j.t = "boolean" -> j.b
      [] j.t = "number" -> j.n # 0 \/ Has(j, "half")
      [] j.t = "string" -> j.s # ""
      [] OTHER -> TRUE

IsArray(j) == j.t = "array"

\* j[k] for a value that is neither undefined nor null.
Get(j, k) ==
    IF j.t = "object" /\ \E i \in 1..Len(j.o) : j.o[i][1] = k
    THEN j.o[CHOOSE i \in 1..Len(j.o) : j.o[i][1] = k][2]
    ELSE JUndefined

\* JSON.stringify of a value that is not undefined: an object's entries whose
\* value is undefined are left out.
RECURSIVE JsonStringify(_)
JsonStringify(j) ==
    CASE j.t = "null" -> "null"
      [] j.t = "boolean" -> IF j.b THEN "true" ELSE "false"
      [] j.t = "number" -> ToString(j.n)
      [] j.t = "string" -> "\"" \o j.s \o "\""
      [] j.t = "array" ->
            "[" \o Join([i \in 1..Len(j.a) |-> JsonStringify(j.a[i])], ",") \o "]"
      [] j.t = "object" ->
            LET kept == SelectSeq(j.o, LAMBDA e : e[2].t # "undefined")
            IN  "{" \o Join([i \in 1..Len(kept) |->
                                "\"" \o kept[i][1] \o "\":" \o JsonStringify(kept[i][2])],
                            ",") \o "}"

(***************************************************************************)
(* Error Normalizer: getHttpErrorMessage, createSpApiErrorFromAxiosError.  *)
(***************************************************************************)
HttpErrorMessages ==
    (400 :> "Request has missing or invalid parameters and cannot be parsed")
    @@ (401 :> "The request is unauthorized. Check your authentication credentials")
    @@ (403 :> "Access to the resource is forbidden. Possible reasons include Access Denied, Unauthorized, Expired Token, or Invalid Signature")
    @@ (404 :> "The resource specified does not exist")
    @@ (413 :> "The request size exceeded the maximum accepted size")
    @@ (415 :> "The request payload is in an unsupported format")
    @@ (429 :> "The frequency of requests was greater than allowed")
    @@ (500 :> "An unexpected condition occurred that prevented the server from fulfilling the request")
    @@ (502 :> "Bad gateway - the server received an invalid response from an upstream server")
    @@ (503 :> "Temporary overloading or maintenance of the server")
    @@ (504 :> "Gateway timeout - the server did not receive a timely response from an upstream server")

getHttpErrorMessage(statusCode) ==
    IF statusCode \in DOMAIN HttpErrorMessages
    THEN HttpErrorMessages[statusCode]
    ELSE "HTTP " \o ToString(statusCode) \o " error"

\* new SpApiClientError(statusCode, errors, requestId, rateLimit); an optional
\* argument is <<>> when undefined and <<text>> otherwise.
SpApiClientError(statusCode, errors, requestId, rateLimit) ==
    [name |-> "SpApiClientError",
     message |-> "SP-API Error: " \o ToString(statusCode),
     statusCode |-> statusCode,
     errors |-> errors,
     requestId |-> requestId,
     rateLimit |-> rateLimit]

\* The status predicates of SpApiClientError.
isClientError(e) == e.statusCode >= 400 /\ e.statusCode < 500

\* A mutant of isServerError: 600 counts as a server error.
isServerErrorInclusive(e) == e.statusCode >= 500 /\ e.statusCode <= 600

isServerError(e) == e.statusCode >= 500 /\ e.statusCode < 600

isRateLimitError(e) == e.statusCode = 429

isAuthError(e) == e.statusCode = 401 \/ e.statusCode = 403

\* getFirstError(): <<the first entry>>, or <<>> for undefined.
getFirstError(e) == IF Len(e.errors) > 0 THEN <<e.errors[1]>> ELSE <<>>

\* An object literal {code, message, details} of the normalizer.
ErrorEntry(code, message, details) ==
    JObj(<< <<"code", JStr(code)>>, <<"message", JStr(message)>>, <<"details", details>> >>)

\* headers[name]: <<>> when the header is absent.
Header(headers, name) == IF Has(headers, name) THEN <<headers[name]>> ELSE <<>>

\* A mutant of ResponseErrors: an empty errors array of the body is not used.
ResponseErrorsNonEmpty(error) ==
    LET statusCode == error.response[1].status
        responseData == error.response[1].data
    IN  IF Truthy(responseData) /\ IsArray(Get(responseData, "errors"))
           /\ Len(Get(responseData, "errors").a) > 0
        THEN Get(responseData, "errors").a
        ELSE <<ErrorEntry("HTTP_" \o ToString(statusCode),
                          getHttpErrorMessage(statusCode),
                          IF Truthy(responseData)
                          THEN JStr(JsonStringify(responseData))
                          ELSE JUndefined)>>

\* The errors of a response: the body's own array, or the one fallback entry.
ResponseErrors(error) ==
    LET statusCode == error.response[1].status
        responseData == error.response[1].data
        first == getHttpErrorMessage(statusCode)
    IN  IF Truthy(responseData) /\ Truthy(Get(responseData, "errors"))
           /\ IsArray(Get(responseData, "errors"))
        THEN Get(responseData, "errors").a
        ELSE <<ErrorEntry("HTTP_" \o ToString(statusCode),
                          IF first # "" THEN first
                          ELSE IF error.message # "" THEN error.message
                          ELSE "HTTP " \o ToString(statusCode) \o " error",
                          IF Truthy(responseData)
                          THEN JStr(JsonStringify(responseData))
                          ELSE JUndefined)>>

\* A mutant of createSpApiErrorFromAxiosError: the request is looked at before
\* the response.
createSpApiErrorRequestFirst(error) ==
    IF error.request
    THEN SpApiClientError(0,
             <<ErrorEntry("NETWORK_ERROR",
                          "Network error occurred while making the request",
                          JStr(error.message))>>,
             <<>>, <<>>)
    ELSE IF error.response # <<>>
    THEN SpApiClientError(error.response[1].status,
                          ResponseErrors(error),
                          Header(error.response[1].headers, "x-amzn-requestid"),
                          Header(error.response[1].headers, "x-amzn-ratelimit-limit"))
    ELSE SpApiClientError(0,
             <<ErrorEntry("REQUEST_SETUP_ERROR", "Error setting up the request",
                          JStr(error.message))>>,
             <<>>, <<>>)

\* A mutant of createSpApiErrorFromAxiosError: an error without a response
\* is given no entry.
createSpApiErrorBare(error) ==
    IF error.response # <<>>
    THEN SpApiClientError(error.response[1].status,
                          ResponseErrors(error),
                          Header(error.response[1].headers, "x-amzn-requestid"),
                          Header(error.response[1].headers, "x-amzn-ratelimit-limit"))
    ELSE SpApiClientError(0, <<>>, <<>>, <<>>)

createSpApiErrorFromAxiosError(error) ==
    IF error.response # <<>>
    THEN SpApiClientError(error.response[1].status,
                          ResponseErrors(error),
                          Header(error.response[1].headers, "x-amzn-requestid"),
                          Header(error.response[1].headers, "x-amzn-ratelimit-limit"))
    ELSE IF error.request
    THEN SpApiClientError(0,
             <<ErrorEntry("NETWORK_ERROR",
                          "Network error occurred while making the request",
                          JStr(error.message))>>,
             <<>>, <<>>)
    ELSE SpApiClientError(0,
             <<ErrorEntry("REQUEST_SETUP_ERROR", "Error setting up the request",
                          JStr(error.message))>>,
             <<>>, <<>>)

(***************************************************************************)
(* What the transport can answer.                                          *)
(***************************************************************************)
SuccessStatuses == {200, 204, 302, 399}
FailureStatuses == {400, 401, 403, 404, 413, 415, 418, 429, 500, 502, 503, 504, 599}

E1 == JObj(<< <<"code", JStr("InvalidInput")>>, <<"message", JStr("m")>> >>)
E2 == JObj(<< <<"code", JStr("QuotaExceeded")>>, <<"message", JStr("slow down")>>,
              <<"details", JStr("d")>> >>)

\* Bodies with an errors array.
ErrorsBodies ==
    {JObj(<< <<"errors", JArr(a)>> >>) : a \in {<<>>, <<E1>>, <<E1, E2>>, <<E2, E1>>}}
    \cup {JObj(<< <<"traceId", JStr("t")>>, <<"errors", JArr(<<E2>>)>> >>)}

\* Bodies without one: no body at all (undefined, null, the empty text), a body
\* that is not an object, an object without errors or whose errors is no array.
PlainBodies ==
    {JUndefined, JNull, JStr(""), JNum(0), JBool(FALSE), JNum(7),
     JStr("Service Unavailable"), JArr(<<E1>>), JObj(<<>>),
     JObj(<< <<"message", JStr("m")>> >>),
     JObj(<< <<"errors", JStr("oops")>> >>),
     JObj(<< <<"errors", JNull>>, <<"detail", JUndefined>> >>)}

ErrorBodies == ErrorsBodies \cup PlainBodies

ResponseHeaders ==
    {a @@ b : a \in Opt("x-amzn-requestid", {"req-1"}),
              b \in Opt("x-amzn-ratelimit-limit", {"5"})}

Responses(statuses, bodies, headers) ==
    [status : statuses, data : bodies, headers : headers]

\* The AxiosError of a response that validateStatus refuses.
ResponseError(r) ==
    [isAxiosError |-> TRUE, response |-> <<r>>, request |-> TRUE,
     message |-> "Request failed with status code " \o ToString(r.status)]

\* The AxiosErrors without a response: the request went out and no answer came
\* (connection failure, timeout), or the request was never sent.
ConnectionError ==
    [isAxiosError |-> TRUE, response |-> <<>>, request |-> TRUE,
     message |-> "Network Error"]

\* The AxiosError of a request that got no answer within its timeout option.
TimeoutError(ms) ==
    [isAxiosError |-> TRUE, response |-> <<>>, request |-> TRUE,
     message |-> "timeout of " \o ToString(ms) \o "ms exceeded"]

NetworkErrors == {ConnectionError, TimeoutError(30000)}
SetupErrors ==
    {[isAxiosError |-> TRUE, response |-> <<>>, request |-> FALSE, message |-> m] :
        m \in {"Invalid URL"}}

AxiosErrors ==
    {ResponseError(r) : r \in Responses(FailureStatuses, ErrorBodies, ResponseHeaders)}
    \cup NetworkErrors \cup SetupErrors

(***************************************************************************)
(* The normalizer on its own: one AxiosError, normalized once.             *)
(***************************************************************************)
InitNormalizer ==
    /\ InitClient
    /\ IdleCall
    /\ vParams = None
    /\ vResult = <<>>
    /\ vThrown = <<>>
    /\ nError \in AxiosErrors
    /\ nResult = <<>>
    /\ IdleLife
    /\ IdleError
    /\ IdleConcurrent

Normalize ==
    /\ nResult = <<>>
    /\ nResult' = <<createSpApiErrorFromAxiosError(nError)>>
    /\ UNCHANGED <<nError, clientVars, callVars, validatorVars, lifeVars, errorVars, concurrentVars>>

NextNormalizer == Normalize

SpecNormalizer == InitNormalizer /\ [][NextNormalizer]_vars

(***************************************************************************)
(* SpApiClientError on its own: one error of any status, asked its four    *)
(* status predicates once.                                                 *)
(***************************************************************************)
\* The largest statusCode an error is built with.
MaxStatus == 700

StatusCodes == -1..MaxStatus

InitError ==
    /\ InitClient
    /\ IdleCall
    /\ IdleLife
    /\ vParams = None
    /\ vResult = <<>>
    /\ vThrown = <<>>
    /\ nError = None
    /\ nResult = <<>>
    /\ eError \in {SpApiClientError(s, <<>>, <<>>, <<>>) : s \in StatusCodes}
    /\ eIs = <<>>
    /\ IdleConcurrent

Classify ==
    /\ eIs = <<>>
    /\ eIs' = <<[isClientError |-> isClientError(eError),
                 isServerError |-> isServerError(eError),
                 isRateLimitError |-> isRateLimitError(eError),
                 isAuthError |-> isAuthError(eError)]>>
    /\ UNCHANGED <<eError, clientVars, callVars, validatorVars, normalizerVars, lifeVars,
                   concurrentVars>>

NextError == Classify

SpecError == InitError /\ [][NextError]_vars

(***************************************************************************)
(* Query Serializer: AmazonSpApiClient.buildQueryString.                   *)
(***************************************************************************)
\* encodeURIComponent, piece by piece.
encodeURIComponent(s) ==
    Text([i \in 1..Len(s) |->
            IF s[i] = " " THEN "%20" ELSE IF s[i] = ":" THEN "%3A"
            ELSE IF s[i] = "/" THEN "%2F" ELSE s[i]])

\* The application/x-www-form-urlencoded serializer of URLSearchParams.
FormEncode(s) ==
    Text([i \in 1..Len(s) |->
            IF s[i] = " " THEN "+" ELSE IF s[i] = ":" THEN "%3A"
            ELSE IF s[i] = "/" THEN "%2F" ELSE s[i]])

\* The entries of the URLSearchParams that buildQueryString fills, in order.
\* forEach(append) adds one entry per element; set() adds one entry, no key
\* being set twice.  An enumerated value is a text of one piece.
buildQueryParams(p) ==
    LET each(key) == [i \in 1..Len(p[key]) |-> <<key, p[key][i]>>]
        list(key) == IF Has(p, key) /\ Len(p[key]) # 0 THEN each(key) ELSE <<>>
        enums(key) == IF Has(p, key) /\ Len(p[key]) # 0
                      THEN [i \in 1..Len(p[key]) |-> <<key, <<p[key][i]>>>>]
                      ELSE <<>>
        text(key) == IF Has(p, key) /\ p[key] # <<>> THEN <<<<key, p[key]>>>> ELSE <<>>
        enum(key) == IF Has(p, key) /\ p[key] # "" THEN <<<<key, <<p[key]>>>>>> ELSE <<>>
    IN  each("marketplaceIds")
        \o text("issueLocale")
        \o enums("includedData")
        \o list("identifiers")
        \o enum("identifiersType")
        \o text("variationParentSku")
        \o text("packageHierarchySku")
        \o text("createdAfter")
        \o text("createdBefore")
        \o text("lastUpdatedAfter")
        \o text("lastUpdatedBefore")
        \o enums("withIssueSeverity")
        \o enums("withStatus")
        \o enums("withoutStatus")
        \o enum("sortBy")
        \o enum("sortOrder")
        \o (IF Has(p, "pageSize") THEN <<<<"pageSize", <<ToString(p.pageSize)>>>>>> ELSE <<>>)
        \o text("pageToken")

\* A mutant of buildQueryString: the entries are written last to first.
buildQueryStringReversed(p) ==
    LET q == buildQueryParams(p)
    IN  Join([i \in 1..Len(q) |->
                q[Len(q) + 1 - i][1] \o "=" \o FormEncode(q[Len(q) + 1 - i][2])], "&")

\* URLSearchParams.toString().
buildQueryString(p) ==
    LET q == buildQueryParams(p)
    IN  Join([i \in 1..Len(q) |-> q[i][1] \o "=" \o FormEncode(q[i][2])], "&")

(***************************************************************************)
(* Config Validator: spApiClientConfigSchema.  In a config handed in by    *)
(* the caller baseUrl is a text, timeout a number and each value of        *)
(* headers a JavaScript value (a text as JStr of its TLA+ string).         *)
(***************************************************************************)
TimeoutMin == 1000
TimeoutMax == 300000

\* The messages the schema sets with .messages(), by field and Joi error type.
ConfigMessages ==
    [baseUrl |->
        [string_uri |-> "baseUrl must be a valid HTTP or HTTPS URL",
         any_required |-> "baseUrl is required"],
     timeout |->
        [number_min |-> "timeout must be at least 1000ms (1 second)",
         number_max |-> "timeout must be at most 300000ms (5 minutes)"],
     headers |->
        [object_pattern_match |-> "headers must be an object with string keys and string values"]]

ConfigDetail(field, path, type, default) ==
    [field |-> field, path |-> path, type |-> type,
     message |-> IF Has(ConfigMessages[field], type)
                 THEN ConfigMessages[field][type]
                 ELSE "\"" \o path \o "\" " \o default]

\* Joi.string().uri({ scheme: ['http', 'https'] }) on a text that is not
\* empty, decided for texts of the form scheme://authority[/path]: the
\* scheme is http or https, the authority is not empty and no piece is a
\* space.
IsHttpUri(s) ==
    /\ Len(s) >= 5
    /\ s[1] \in {"http", "https"}
    /\ s[2] = ":" /\ s[3] = "/" /\ s[4] = "/"
    /\ s[5] \notin {"/", ":", " "}
    /\ \A i \in 1..Len(s) : s[i] # " "

\* Joi.string().uri(..).required() on baseUrl: the text is not trimmed.
BaseUrlErrors(config) ==
    IF ~Has(config, "baseUrl")
    THEN <<ConfigDetail("baseUrl", "baseUrl", "any_required", "is required")>>
    ELSE IF config.baseUrl = <<>>
    THEN <<ConfigDetail("baseUrl", "baseUrl", "string_empty", "is not allowed to be empty")>>
    ELSE IF ~IsHttpUri(config.baseUrl)
    THEN <<ConfigDetail("baseUrl", "baseUrl", "string_uri", "must be a valid uri")>>
    ELSE <<>>

\* A mutant of TimeoutErrors: the lower limit is not checked.
TimeoutErrorsNoFloor(config) ==
    IF ~Has(config, "timeout") THEN <<>>
    ELSE IF Has(config.timeout, "half")
    THEN <<ConfigDetail("timeout", "timeout", "number_integer", "must be an integer")>>
    ELSE IF config.timeout.n > TimeoutMax
    THEN <<ConfigDetail("timeout", "timeout", "number_max", "is too large")>>
    ELSE <<>>

\* Joi.number().integer().min(1000).max(300000).optional() on timeout: the
\* rules run in the order the schema states them.
TimeoutErrors(config) ==
    IF ~Has(config, "timeout") THEN <<>>
    ELSE IF Has(config.timeout, "half")
    THEN <<ConfigDetail("timeout", "timeout", "number_integer", "must be an integer")>>
    ELSE IF config.timeout.n < TimeoutMin
    THEN <<ConfigDetail("timeout", "timeout", "number_min", "is too small")>>
    ELSE IF config.timeout.n > TimeoutMax
    THEN <<ConfigDetail("timeout", "timeout", "number_max", "is too large")>>
    ELSE <<>>

\* Joi.string() on one value of headers: a text, and not the empty one.
HeaderValueErrors(name, v) ==
    IF v.t # "string"
    THEN <<ConfigDetail("headers", "headers." \o name, "string_base", "must be a string")>>
    ELSE IF v.s = ""
    THEN <<ConfigDetail("headers", "headers." \o name, "string_empty",
                        "is not allowed to be empty")>>
    ELSE <<>>

\* Joi.object().pattern(Joi.string(), Joi.string()).optional() on headers: the
\* error of the first value that has one (the configs of the model have at
\* most one such value).
HeadersErrors(config) ==
    IF ~Has(config, "headers") THEN <<>>
    ELSE LET bad == {name \in DOMAIN config.headers :
                        HeaderValueErrors(name, config.headers[name]) # <<>>}
         IN  IF bad = {} THEN <<>>
             ELSE LET name == CHOOSE name \in bad : TRUE
                  IN  HeaderValueErrors(name, config.headers[name])

\* validateClientConfig(config).error: <<>> or <<details>>; the keys are
\* checked in the order the schema lists them and, validate() being called
\* without options, the first error ends the validation.
validateClientConfig(config) ==
    LET all == BaseUrlErrors(config) \o TimeoutErrors(config) \o HeadersErrors(config)
    IN  IF all = <<>> THEN <<>>
        ELSE IF abortEarly THEN <<<<Head(all)>>>> ELSE <<all>>

\* validateClientConfigOrThrow(config): <<>> or <<the Error it throws>>.
validateClientConfigOrThrow(config) ==
    LET error == validateClientConfig(config)
    IN  IF error = <<>> THEN <<>>
        ELSE <<[name |-> "Error",
                message |-> "Invalid configuration: " \o Join(Messages(error[1]), ", "),
                details |-> error[1]]>>

(***************************************************************************)
(* Client: AmazonSpApiClient.searchListingsItems.                           *)
(***************************************************************************)
\* A mutant of validateStatus: 400 is let through.
validateStatusInclusive(status) == status <= 400

\* The validateStatus option handed to axios.get.
validateStatus(status) == status < 400

\* The request handed to axios.get.
Request(p) ==
    [method |-> "GET",
     url |-> Text(baseUrl) \o "/listings/2021-08-01/items/"
             \o encodeURIComponent(p.sellerId)
             \o "?" \o buildQueryString(p),
     headers |-> defaultHeaders,
     timeout |-> timeout]

\* A mutant of Caught: every error is thrown on as it is.
CaughtRethrowing(error) == error

\* A mutant of Caught: every error is normalized, an error that is no
\* AxiosError having neither a response nor a request.
CaughtNormalizingAll(error) ==
    createSpApiErrorFromAxiosError(
        [isAxiosError |-> TRUE, response |-> <<>>, request |-> FALSE,
         message |-> error.message])

\* The catch block: an AxiosError is normalized, any other error is thrown on.
Caught(error) ==
    IF Has(error, "isAxiosError") /\ error.isAxiosError
    THEN createSpApiErrorFromAxiosError(error)
    ELSE error

SearchResponses ==
    {JObj(<< <<"numberOfResults", JNum(0)>>, <<"items", JArr(<<>>)>> >>),
     JObj(<< <<"numberOfResults", JNum(1)>>,
             <<"items", JArr(<<JObj(<< <<"sku", JStr("K1")>> >>)>>)>>,
             <<"errors", JArr(<<E1>>)>> >>),
     JStr("")}

\* The bodies of the failed responses the client is run against.
FailureBodies ==
    {JUndefined, JNum(0), JObj(<< <<"message", JStr("m")>> >>),
     JObj(<< <<"errors", JArr(<<E1, E2>>)>> >>)}

\* The failed statuses and the response headers the client is run against.
AnsweredFailures == {400, 401, 404, 429, 500, 503, 599}
AnsweredHeaders ==
    {None, ("x-amzn-requestid" :> "req-1") @@ ("x-amzn-ratelimit-limit" :> "5")}

\* What the transport gives axios for a request: a response, a failure
\* without one, or nothing at all before the request's timeout runs out.
TransportAnswers ==
    [kind : {"response"},
     response : Responses(SuccessStatuses, SearchResponses, AnsweredHeaders)
                \cup Responses(AnsweredFailures, FailureBodies, AnsweredHeaders)]
    \cup [kind : {"failure"}, error : {ConnectionError} \cup SetupErrors]
    \cup {[kind |-> "timeout"]}

\* The AxiosError axios rejects with for an answer it does not resolve with.
Rejection(a) ==
    IF a.kind = "response" THEN ResponseError(a.response)
    ELSE IF a.kind = "timeout" THEN TimeoutError(request[1].timeout)
    ELSE a.error

Init ==
    /\ InitClient
    /\ IdleCall
    /\ vParams = None
    /\ vResult = <<>>
    /\ vThrown = <<>>
    /\ nError = None
    /\ nResult = <<>>
    /\ IdleLife
    /\ IdleError
    /\ IdleConcurrent

\* searchListingsItems(p) up to its await: validation, then the one axios.get,
\* which copies the headers it is handed into the request it builds.
Invoke(p) ==
    LET thrown == validateSearchParamsOrThrow(p)
    IN  /\ pc = "idle"
        /\ params' = p
        /\ answer' = <<>>
        /\ IF thrown # <<>>
           THEN /\ pc' = "done"
                /\ gets' = 0
                /\ request' = <<>>
                /\ result' = [kind |-> "thrown", error |-> Caught(thrown[1])]
           ELSE /\ pc' = "awaiting"
                /\ gets' = 1
                /\ request' = <<Request(p)>>
                /\ result' = [kind |-> "none"]

Call ==
    /\ \E p \in CallParams : Invoke(p)
    /\ UNCHANGED <<clientVars, validatorVars, normalizerVars, lifeVars, errorVars, concurrentVars>>

\* A mutant of Settle: a failed request is issued once more.
SettleRetrying ==
    \E a \in TransportAnswers :
        LET ok == a.kind = "response" /\ validateStatus(a.response.status)
        IN  /\ pc = "awaiting"
            /\ answer' = <<a>>
            /\ pc' = IF ~ok /\ gets < 2 THEN "awaiting" ELSE "done"
            /\ gets' = IF ~ok /\ gets < 2 THEN gets + 1 ELSE gets
            /\ result' =
                  IF ok THEN [kind |-> "returned", value |-> a.response.data]
                  ELSE IF gets < 2 THEN result
                  ELSE [kind |-> "thrown", error |-> Caught(Rejection(a))]
            /\ UNCHANGED <<params, request, clientVars, validatorVars, normalizerVars, lifeVars, errorVars, concurrentVars>>

\* The await settles: axios resolves with a response validateStatus accepts
\* and rejects with an AxiosError otherwise.
Settled(a) ==
    /\ pc = "awaiting"
    /\ answer' = <<a>>
    /\ pc' = "done"
    /\ result' =
          IF a.kind = "response" /\ validateStatus(a.response.status)
          THEN [kind |-> "returned", value |-> a.response.data]
          ELSE [kind |-> "thrown", error |-> Caught(Rejection(a))]
    /\ UNCHANGED <<params, gets, request>>

Settle ==
    /\ \E a \in TransportAnswers : Settled(a)
    /\ UNCHANGED <<clientVars, validatorVars, normalizerVars, lifeVars, errorVars, concurrentVars>>

\* The caller has the outcome; the client is ready for the next invocation.
Finish ==
    /\ pc = "done"
    /\ pc' = "idle"
    /\ params' = None
    /\ gets' = 0
    /\ request' = <<>>
    /\ answer' = <<>>
    /\ result' = [kind |-> "none"]
    /\ UNCHANGED <<clientVars, validatorVars, normalizerVars, lifeVars, errorVars, concurrentVars>>

Next == Call \/ Settle \/ Finish

Spec == Init /\ [][Next]_vars

\* The timeout handed to axios.get is never 0 (the constructor keeps 30000 or
\* a validated value of 1000 or more), so axios arms its timer and the await
\* settles: with the transport's answer, or with the timeout's rejection.
SpecLive == Spec /\ WF_vars(Settle)

(***************************************************************************)
(* Client: the constructor, getConfig, updateHeaders, removeHeaders and    *)
(* withConfig of AmazonSpApiClient.                                        *)
(***************************************************************************)
\* The headers the constructor puts under those of the config.
DefaultHeaders ==
    ("Content-Type" :> "application/json") @@ ("Accept" :> "application/json")

\* String.prototype.replace(/\/$/, ''): one slash at the end is removed.
StripSlash(s) ==
    IF s # <<>> /\ s[Len(s)] = "/" THEN SubSeq(s, 1, Len(s) - 1) ELSE s

\* A mapping of header values between a config (JavaScript values) and the
\* client's defaultHeaders (the texts themselves).
Untagged(h) == [name \in DOMAIN h |-> h[name].s]
Tagged(h) == [name \in DOMAIN h |-> JStr(h[name])]

\* new AmazonSpApiClient(config): the Error thrown, or the fields of the client.
NewClient(config) ==
    LET thrown == validateClientConfigOrThrow(config)
    IN  IF thrown # <<>>
        THEN [kind |-> "thrown", error |-> thrown[1]]
        ELSE [kind |-> "client",
              baseUrl |-> StripSlash(config.baseUrl),
              timeout |-> IF Has(config, "timeout") /\ Truthy(config.timeout)
                          THEN config.timeout.n
                          ELSE 30000,
              defaultHeaders |->
                  (IF Has(config, "headers") THEN Untagged(config.headers) ELSE None)
                  @@ DefaultHeaders]

\* A mutant of getConfig: the headers returned are the client's own object.
getConfigSharing ==
    [baseUrl |-> baseUrl, timeout |-> timeout, headers |-> defaultHeaders,
     sameObject |-> TRUE]

\* getConfig(): the object returned; sameObject tells whether its headers are
\* the very object this.defaultHeaders (they are a spread copy of it).
getConfig ==
    [baseUrl |-> baseUrl, timeout |-> timeout, headers |-> defaultHeaders,
     sameObject |-> FALSE]

\* A mutant of updateHeaders: a key the client already has keeps its value.
updateHeadersKeeping(headers) == defaultHeaders @@ headers

\* updateHeaders(headers): Object.assign(this.defaultHeaders, headers).
updateHeaders(headers) == headers @@ defaultHeaders

\* removeHeaders(headerNames): delete this.defaultHeaders[name] for each name.
removeHeaders(headerNames) ==
    [name \in DOMAIN defaultHeaders \ {headerNames[i] : i \in 1..Len(headerNames)} |->
        defaultHeaders[name]]

\* withConfig(config): the newConfig handed to the constructor; || takes the
\* client's value for a baseUrl that is absent or empty and for a timeout
\* that is absent or 0.
newConfig(config) ==
    [baseUrl |-> IF Has(config, "baseUrl") /\ config.baseUrl # <<>>
                 THEN config.baseUrl ELSE baseUrl,
     timeout |-> IF Has(config, "timeout") /\ Truthy(config.timeout)
                 THEN config.timeout ELSE JNum(timeout),
     headers |-> (IF Has(config, "headers") THEN config.headers ELSE None)
                 @@ Tagged(defaultHeaders)]

withConfig(config) == NewClient(newConfig(config))

\* The configs the constructor is called with.
Na == <<"https", ":", "/", "/", "sellingpartnerapi-na.amazon.com">>

BaseUrlValues ==
    {Na, Na \o <<"/">>, Na \o <<"/", "/">>,
     <<"http", ":", "/", "/", "localhost", ":", "3000">>,
     <<>>, <<"not-a-url">>, <<"ftp", ":", "/", "/", "x.example.com">>,
     <<" ">> \o Na}

TimeoutValues ==
    {JNum(n) : n \in {0, 500, TimeoutMin - 1, TimeoutMin, TimeoutMax, TimeoutMax + 1}}
    \cup {JHalf(1500)}

HeadersValues ==
    {None,
     "a" :> JStr("b"),
     "Content-Type" :> JStr("text/plain"),
     "a" :> JNum(1),
     "a" :> JStr("")}

\* Each field takes every value beside good values of the two others, and
\* beside bad ones.
GoodConfig == ("baseUrl" :> Na) @@ ("timeout" :> JNum(TimeoutMin)) @@ ("headers" :> None)
BadConfig == ("baseUrl" :> <<"not-a-url">>) @@ ("timeout" :> JNum(500))
             @@ ("headers" :> ("a" :> JNum(1)))

Configs ==
    Opt("baseUrl", BaseUrlValues)
    \cup {b @@ t @@ h : b \in {"baseUrl" :> Na},
                        t \in Opt("timeout", TimeoutValues),
                        h \in Opt("headers", HeadersValues)}
    \cup {f @@ rest : f \in Opt("baseUrl", BaseUrlValues) \cup Opt("timeout", TimeoutValues)
                            \cup Opt("headers", HeadersValues),
                      rest \in {GoodConfig, BadConfig}}

\* The partial configs withConfig is called with.
Partials ==
    {b @@ t @@ h :
        b \in Opt("baseUrl", {<<"https", ":", "/", "/", "sellingpartnerapi-eu.amazon.com">>,
                              <<>>, <<"not-a-url">>}),
        t \in Opt("timeout", {JNum(0), JNum(500), JNum(10000), JNum(TimeoutMax + 1)}),
        h \in Opt("headers", {None, "h" :> JStr("v"), "Accept" :> JStr("text/plain")})}

\* What updateHeaders and removeHeaders are called with, and what the caller
\* does to the headers of an object getConfig returned.
HeaderUpdates == {None, "h" :> "v", ("Accept" :> "text/plain") @@ ("h" :> "v")}

HeaderRemovals == {<<>>, <<"Accept", "missing">>, <<"Content-Type">>}

SnapshotChanges ==
    {[set |-> "Accept" :> "text/plain", delete |-> {}],
     [set |-> "x" :> "y", delete |-> {}],
     [set |-> None, delete |-> {"Content-Type"}]}

\* The invocations and answers the configured client is run with.
ClientParams == {MinimalParams}
ClientAnswers ==
    {[kind |-> "response",
      response |-> [status |-> 200, data |-> JObj(<< <<"numberOfResults", JNum(0)>> >>),
                    headers |-> None]],
     [kind |-> "timeout"]}

\* new AmazonSpApiClient(config), before anything else is done: on success
\* the client of the model is the new one.
Construct ==
    \E config \in Configs :
        LET new == NewClient(config)
        IN  /\ pc = "idle"
            /\ op.name = "none"
            /\ op' = [name |-> "construct", input |-> config]
            /\ made' = <<new>>
            /\ snapshot' = <<>>
            /\ IF new.kind = "client"
               THEN /\ baseUrl' = new.baseUrl
                    /\ timeout' = new.timeout
                    /\ defaultHeaders' = new.defaultHeaders
               ELSE UNCHANGED clientVars
            /\ UNCHANGED <<callVars, validatorVars, normalizerVars, errorVars, concurrentVars>>

GetConfig ==
    /\ pc = "idle"
    /\ op' = [name |-> "getConfig"]
    /\ snapshot' = <<getConfig>>
    /\ made' = <<>>
    /\ UNCHANGED <<clientVars, callVars, validatorVars, normalizerVars, errorVars, concurrentVars>>

\* The caller writes to the headers of the object getConfig returned.
ChangeSnapshot ==
    \E c \in SnapshotChanges :
        LET old == snapshot[1].headers
            new == [name \in (DOMAIN old \cup DOMAIN c.set) \ c.delete |->
                        IF Has(c.set, name) THEN c.set[name] ELSE old[name]]
        IN  /\ op.name = "getConfig"
            /\ op' = [name |-> "changeSnapshot", input |-> c]
            /\ snapshot' = <<[snapshot[1] EXCEPT !.headers = new]>>
            /\ defaultHeaders' = IF snapshot[1].sameObject THEN new ELSE defaultHeaders
            /\ UNCHANGED <<baseUrl, timeout, made, callVars, validatorVars,
                           normalizerVars, errorVars, concurrentVars>>

UpdateHeaders ==
    \E headers \in HeaderUpdates :
        /\ defaultHeaders' = updateHeaders(headers)
        /\ op' = [name |-> "updateHeaders", input |-> headers]
        /\ made' = <<>>
        /\ snapshot' = <<>>
        /\ UNCHANGED <<baseUrl, timeout, callVars, validatorVars, normalizerVars,
                       errorVars, concurrentVars>>

RemoveHeaders ==
    \E headerNames \in HeaderRemovals :
        /\ defaultHeaders' = removeHeaders(headerNames)
        /\ op' = [name |-> "removeHeaders", input |-> headerNames]
        /\ made' = <<>>
        /\ snapshot' = <<>>
        /\ UNCHANGED <<baseUrl, timeout, callVars, validatorVars, normalizerVars,
                       errorVars, concurrentVars>>

\* A mutant of WithConfig: the config is applied to the client itself, which
\* is returned.
WithConfigInPlace ==
    \E config \in Partials :
        LET new == withConfig(config)
        IN  /\ pc = "idle"
            /\ op' = [name |-> "withConfig", input |-> config]
            /\ made' = <<new>>
            /\ snapshot' = <<>>
            /\ IF new.kind = "client"
               THEN /\ baseUrl' = new.baseUrl
                    /\ timeout' = new.timeout
                    /\ defaultHeaders' = new.defaultHeaders
               ELSE UNCHANGED clientVars
            /\ UNCHANGED <<callVars, validatorVars, normalizerVars, errorVars,
                           concurrentVars>>

WithConfig ==
    \E config \in Partials :
        /\ pc = "idle"
        /\ op' = [name |-> "withConfig", input |-> config]
        /\ made' = <<withConfig(config)>>
        /\ snapshot' = <<>>
        /\ UNCHANGED <<clientVars, callVars, validatorVars, normalizerVars, errorVars, concurrentVars>>

CallClient ==
    /\ \E p \in ClientParams : Invoke(p)
    /\ op' = [name |-> "searchListingsItems"]
    /\ made' = <<>>
    /\ snapshot' = <<>>
    /\ UNCHANGED <<clientVars, validatorVars, normalizerVars, errorVars, concurrentVars>>

SettleClient ==
    /\ \E a \in ClientAnswers : Settled(a)
    /\ UNCHANGED <<clientVars, validatorVars, normalizerVars, lifeVars, errorVars, concurrentVars>>

NextClient ==
    \/ Construct
    \/ GetConfig
    \/ ChangeSnapshot
    \/ UpdateHeaders
    \/ RemoveHeaders
    \/ WithConfig
    \/ CallClient
    \/ SettleClient
    \/ Finish

SpecClient == Init /\ [][NextClient]_vars

(***************************************************************************)
(* The serializer over every record of ParamSet: searchListingsItems is    *)
(* invoked with any of them and answered.                                  *)
(***************************************************************************)
CallSerializer ==
    /\ \E p \in ParamSet : Invoke(p)
    /\ UNCHANGED <<clientVars, validatorVars, normalizerVars, lifeVars, errorVars, concurrentVars>>

NextSerializer == CallSerializer \/ SettleClient \/ Finish

SpecSerializer == Init /\ [][NextSerializer]_vars

(***************************************************************************)
(* Invocations side by side: each searchListingsItems call runs to its     *)
(* await in one step and settles in another; the calls of the others come  *)
(* in between.  A client is the record of its three fields.                *)
(***************************************************************************)
\* The client the module's variables hold, as a record.
Origin == [baseUrl |-> baseUrl, timeout |-> timeout, defaultHeaders |-> defaultHeaders]

\* The client of the name: the constructed one or the one withConfig gave.
ClientOf(name) == IF name = "origin" THEN Origin ELSE derived[1]

\* The request a client hands to axios.get.
RequestOf(client, p) ==
    [method |-> "GET",
     url |-> Text(client.baseUrl) \o "/listings/2021-08-01/items/"
             \o encodeURIComponent(p.sellerId)
             \o "?" \o buildQueryString(p),
     headers |-> client.defaultHeaders,
     timeout |-> client.timeout]

\* A mutant of Started: the request is that of the invocation already in
\* flight, if there is one (the request object is kept in a field all
\* invocations write to).
StartedSharing(name, p) ==
    LET thrown == validateSearchParamsOrThrow(p)
        flying == {i \in Invocations : calls[i].pc = "awaiting"}
    IN  IF thrown # <<>>
        THEN [client |-> name, pc |-> "done", params |-> p, request |-> <<>>,
              answer |-> <<>>,
              result |-> [kind |-> "thrown", error |-> Caught(thrown[1])]]
        ELSE [client |-> name, pc |-> "awaiting", params |-> p,
              request |-> IF flying = {} THEN <<RequestOf(ClientOf(name), p)>>
                          ELSE calls[CHOOSE i \in flying : TRUE].request,
              answer |-> <<>>, result |-> [kind |-> "none"]]

\* searchListingsItems(p) on the named client up to its await: the invocation
\* it leaves behind.
Started(name, p) ==
    LET thrown == validateSearchParamsOrThrow(p)
    IN  IF thrown # <<>>
        THEN [client |-> name, pc |-> "done", params |-> p, request |-> <<>>,
              answer |-> <<>>,
              result |-> [kind |-> "thrown", error |-> Caught(thrown[1])]]
        ELSE [client |-> name, pc |-> "awaiting", params |-> p,
              request |-> <<RequestOf(ClientOf(name), p)>>,
              answer |-> <<>>, result |-> [kind |-> "none"]]

\* The invocation after its await has settled with the transport's answer.
Received(call, a) ==
    [call EXCEPT
        !.pc = "done",
        !.answer = <<a>>,
        !.result =
            IF a.kind = "response" /\ validateStatus(a.response.status)
            THEN [kind |-> "returned", value |-> a.response.data]
            ELSE [kind |-> "thrown",
                  error |-> Caught(IF a.kind = "response" THEN ResponseError(a.response)
                                   ELSE IF a.kind = "timeout"
                                   THEN TimeoutError(call.request[1].timeout)
                                   ELSE a.error)]]

\* The records and answers of the invocations side by side.
ConcurrentParams ==
    {MinimalParams,
     ("sellerId" :> S1Padded) @@ ("marketplaceIds" :> Texts("M", 1)),
     MinimalParams @@ ("pageSize" :> PageSizeMin),
     "sellerId" :> S1}

ConcurrentAnswers ==
    ClientAnswers
    \cup {[kind |-> "response",
           response |-> [status |-> 500, data |-> JUndefined, headers |-> None]],
          [kind |-> "failure", error |-> ConnectionError]}

StartCall(i, name) ==
    \E p \in ConcurrentParams :
        /\ calls[i].pc = "idle"
        /\ calls' = [calls EXCEPT ![i] = Started(name, p)]
        /\ UNCHANGED <<derived, clientVars, callVars, validatorVars, normalizerVars,
                       lifeVars, errorVars>>

SettleCall(i) ==
    \E a \in ConcurrentAnswers :
        /\ calls[i].pc = "awaiting"
        /\ calls' = [calls EXCEPT ![i] = Received(calls[i], a)]
        /\ UNCHANGED <<derived, clientVars, callVars, validatorVars, normalizerVars,
                       lifeVars, errorVars>>

\* The caller has the outcome of the invocation.
FinishCall(i) ==
    /\ calls[i].pc = "done"
    /\ calls' = [calls EXCEPT ![i] = IdleInvocation]
    /\ UNCHANGED <<derived, clientVars, callVars, validatorVars, normalizerVars,
                   lifeVars, errorVars>>

\* updateHeaders or removeHeaders while no invocation runs.
Reconfigure ==
    /\ \A i \in Invocations : calls[i].pc = "idle"
    /\ \/ \E headers \in HeaderUpdates : defaultHeaders' = updateHeaders(headers)
       \/ \E headerNames \in HeaderRemovals : defaultHeaders' = removeHeaders(headerNames)
    /\ UNCHANGED <<baseUrl, timeout, callVars, validatorVars, normalizerVars, lifeVars,
                   errorVars, concurrentVars>>

StartOrigin == \E i \in Invocations : StartCall(i, "origin")
SettleAny == \E i \in Invocations : SettleCall(i)
FinishAny == \E i \in Invocations : FinishCall(i)

NextConcurrent == StartOrigin \/ SettleAny \/ FinishAny \/ Reconfigure

SpecConcurrent == Init /\ [][NextConcurrent]_vars

(***************************************************************************)
(* A client and the client its withConfig returned, both in use: headers   *)
(* are updated and removed on either, invocations run on either.           *)
(***************************************************************************)
\* Object.assign(headers object, headers) and delete headers object[name].
updateHeadersOf(client, headers) == headers @@ client.defaultHeaders

removeHeadersOf(client, headerNames) ==
    [name \in DOMAIN client.defaultHeaders \ {headerNames[i] : i \in 1..Len(headerNames)} |->
        client.defaultHeaders[name]]

\* A mutant of Derivation: the new client is given the defaultHeaders object
\* of the client it is derived from.
DerivationSharing(config) ==
    LET new == withConfig(config)
    IN  [baseUrl |-> new.baseUrl, timeout |-> new.timeout,
         defaultHeaders |-> defaultHeaders, sameObject |-> TRUE]

\* The client withConfig(config) returns; sameObject tells whether its
\* defaultHeaders are the very object of the client it is derived from (the
\* constructor builds its own object from a spread copy).
Derivation(config) ==
    LET new == withConfig(config)
    IN  [baseUrl |-> new.baseUrl, timeout |-> new.timeout,
         defaultHeaders |-> new.defaultHeaders, sameObject |-> FALSE]

\* What withConfig, updateHeaders and removeHeaders are called with here.
DerivePartials ==
    {None, "timeout" :> JNum(10000), "headers" :> ("Accept" :> JStr("text/plain"))}

IsolationUpdates == {"h" :> "v"}
IsolationRemovals == {<<"h">>, <<"Accept">>}
ClientNames == {"origin", "derived"}

Derive ==
    \E config \in DerivePartials :
        /\ derived = <<>>
        /\ withConfig(config).kind = "client"
        /\ derived' = <<Derivation(config)>>
        /\ op' = [name |-> "withConfig", input |-> config]
        /\ UNCHANGED <<calls, made, snapshot, clientVars, callVars, validatorVars,
                       normalizerVars, errorVars>>

\* The named client's headers object becomes new; so does the other's when
\* the two are one object.
Mutated(name, new) ==
    LET shared == derived # <<>> /\ derived[1].sameObject
    IN  /\ name = "derived" => derived # <<>>
        /\ defaultHeaders' = IF name = "origin" \/ shared THEN new ELSE defaultHeaders
        /\ derived' = IF derived # <<>> /\ (name = "derived" \/ shared)
                      THEN <<[derived[1] EXCEPT !.defaultHeaders = new]>>
                      ELSE derived
        /\ UNCHANGED <<calls, made, snapshot, baseUrl, timeout, callVars, validatorVars,
                       normalizerVars, errorVars>>

UpdateHeadersOf(name) ==
    \E headers \in IsolationUpdates :
        /\ name = "derived" => derived # <<>>
        /\ Mutated(name, updateHeadersOf(ClientOf(name), headers))
        /\ op' = [name |-> "updateHeaders", client |-> name, input |-> headers]

RemoveHeadersOf(name) ==
    \E headerNames \in IsolationRemovals :
        /\ name = "derived" => derived # <<>>
        /\ Mutated(name, removeHeadersOf(ClientOf(name), headerNames))
        /\ op' = [name |-> "removeHeaders", client |-> name, input |-> headerNames]

UpdateEither == \E name \in ClientNames : UpdateHeadersOf(name)
RemoveEither == \E name \in ClientNames : RemoveHeadersOf(name)

StartEither ==
    \E i \in Invocations, name \in ClientNames :
        /\ name = "derived" => derived # <<>>
        /\ calls[i].pc = "idle"
        /\ calls' = [calls EXCEPT ![i] = Started(name, MinimalParams)]
        /\ UNCHANGED <<derived, clientVars, callVars, validatorVars, normalizerVars,
                       lifeVars, errorVars>>

SettleEither ==
    \E i \in Invocations, a \in {[kind |-> "timeout"]} :
        /\ calls[i].pc = "awaiting"
        /\ calls' = [calls EXCEPT ![i] = Received(calls[i], a)]
        /\ UNCHANGED <<derived, clientVars, callVars, validatorVars, normalizerVars,
                       lifeVars, errorVars>>

NextIsolation ==
    \/ Derive
    \/ UpdateEither
    \/ RemoveEither
    \/ StartEither
    \/ SettleEither
    \/ FinishAny

SpecIsolation == Init /\ [][NextIsolation]_vars

(***************************************************************************)
(* Properties of the Parameter Validator (SpecValidator).                  *)
(***************************************************************************)
Validated == vResult # <<>>
Rejected == Validated /\ vThrown[1] # <<>>
Accepted == Validated /\ vThrown[1] = <<>> /\ vResult[1].error = <<>>
ReportedDetails == IF Rejected THEN vThrown[1][1].details ELSE <<>>
ReportedMessages == {ReportedDetails[i].message : i \in 1..Len(ReportedDetails)}

NonEmptyIdentifiers(p) == Has(p, "identifiers") /\ Len(p.identifiers) > 0
SellerIdOk(p) == Has(p, "sellerId") /\ Trim(p.sellerId) # <<>>
MarketplaceIdsOk(p) ==
    /\ Has(p, "marketplaceIds")
    /\ Len(p.marketplaceIds) = 1
    /\ Trim(p.marketplaceIds[1]) # <<>>
InSet(p, field, allowed) == Has(p, field) => p[field] \in allowed
AllInSet(p, field, allowed) ==
    Has(p, field) => \A i \in 1..Len(p[field]) : p[field][i] \in allowed
EnumsOk(p) ==
    /\ InSet(p, "identifiersType", IdentifierTypes)
    /\ InSet(p, "sortBy", SortBys)
    /\ InSet(p, "sortOrder", SortOrders)
    /\ AllInSet(p, "includedData", IncludedDataTypes)
    /\ AllInSet(p, "withIssueSeverity", IssueSeverities)
    /\ AllInSet(p, "withStatus", ListingStatuses)
    /\ AllInSet(p, "withoutStatus", ListingStatuses)
PageSizeOk(p) == Has(p, "pageSize") => p.pageSize \in 1..20
IdentifiersOk(p) ==
    Has(p, "identifiers") =>
        /\ Len(p.identifiers) <= 20
        /\ \A i \in 1..Len(p.identifiers) : Trim(p.identifiers[i]) # <<>>
DatesOk(p) ==
    \A f \in {"createdAfter", "createdBefore", "lastUpdatedAfter", "lastUpdatedBefore"} :
        InSet(p, f, IsoDates)
TextsOk(p) ==
    \A f \in {"issueLocale", "variationParentSku", "packageHierarchySku", "pageToken"} :
        Has(p, f) => Trim(p[f]) # <<>>
RuleAOk(p) == NonEmptyIdentifiers(p) => Has(p, "identifiersType")
ExclusiveSet(p) ==
    {n \in {"identifiers"} : NonEmptyIdentifiers(p)}
    \cup {n \in {"variationParentSku", "packageHierarchySku"} : Has(p, n)}
RuleBOk(p) == Cardinality(ExclusiveSet(p)) <= 1
RequiredMessage == "identifiersType is required when identifiers are provided"
ExclusiveMessage(names) ==
    "Cannot use multiple exclusive parameters: " \o names
    \o ". Use only one of: identifiers, variationParentSku, or packageHierarchySku"
ExpectedNames(set) ==
    CASE set = {"identifiers", "variationParentSku"} -> "identifiers, variationParentSku"
      [] set = {"identifiers", "packageHierarchySku"} -> "identifiers, packageHierarchySku"
      [] set = {"variationParentSku", "packageHierarchySku"} ->
            "variationParentSku, packageHierarchySku"
      [] OTHER -> "identifiers, variationParentSku, packageHierarchySku"

\* C2: when a record violates several rules at once, the one reported failure
\* holds the message of every violated rule, not only the first.
C2_EveryViolationReported ==
    Validated =>
        \A i \in 1..Len(FieldErrors(vParams)) :
            FieldErrors(vParams)[i].message \in ReportedMessages

\* C3: rule A.  For a record whose field rules all pass: identifiers non-empty
\* and identifiersType absent is rejected with the conditional-requirement
\* message; with identifiers absent or empty, an absent identifiersType brings
\* no such violation.
C3_RuleA ==
    (Validated /\ FieldErrors(vParams) = <<>> /\ ~Has(vParams, "identifiersType")) =>
        /\ NonEmptyIdentifiers(vParams) =>
              (Rejected /\ RequiredMessage \in ReportedMessages)
        /\ ~NonEmptyIdentifiers(vParams) => RequiredMessage \notin ReportedMessages

C3_Witness ==
    /\ Rejected
    /\ FieldErrors(vParams) = <<>>
    /\ NonEmptyIdentifiers(vParams)
    /\ ~Has(vParams, "identifiersType")
    /\ RequiredMessage \in ReportedMessages

\* C4: rule B.  For a record whose field rules and rule A pass: it is rejected
\* iff two or more of identifiers (non-empty), variationParentSku and
\* packageHierarchySku are set, and then with exactly one violation whose
\* message names exactly the offending parameters in the fixed order; an empty
\* identifiers does not count.
C4_RuleB ==
    (Validated /\ FieldErrors(vParams) = <<>> /\ RuleAOk(vParams)) =>
        /\ Rejected <=> Cardinality(ExclusiveSet(vParams)) >= 2
        /\ Rejected =>
              /\ Len(ReportedDetails) = 1
              /\ ReportedDetails[1].message
                    = ExclusiveMessage(ExpectedNames(ExclusiveSet(vParams)))

C4_Witness ==
    /\ Rejected
    /\ FieldErrors(vParams) = <<>>
    /\ Has(vParams, "identifiers") /\ Len(vParams.identifiers) = 0
    /\ ExclusiveSet(vParams) = {"variationParentSku", "packageHierarchySku"}

\* C5: required fields.  A record is rejected when sellerId is absent or empty
\* after trimming, when marketplaceIds is absent, when its length is not
\* exactly 1, or when its element is empty after trimming; the minimal record
\* is accepted.
C5_RequiredFields ==
    Validated =>
        /\ ~SellerIdOk(vParams) => Rejected
        /\ ~MarketplaceIdsOk(vParams) => Rejected
        /\ vParams = MinimalParams => Accepted

C5_Witness ==
    /\ Rejected
    /\ Has(vParams, "sellerId") /\ vParams.sellerId = Blank
    /\ MarketplaceIdsOk(vParams)
    /\ DOMAIN vParams = {"sellerId", "marketplaceIds"}

Answered == pc = "done" /\ answer # <<>>

\* C1: for every record the validator rejects, searchListingsItems fails with
\* the validation error and hands nothing to the transport: it issues 0 GETs.
C1_RejectedSendsNothing ==
    (pc # "idle" /\ JoiDetails(params) # <<>>) =>
        /\ pc = "done"
        /\ gets = 0
        /\ request = <<>>
        /\ answer = <<>>
        /\ result.kind = "thrown"
        /\ result.error.name = "Error"
        /\ result.error.details = JoiDetails(params)

C1_Witness ==
    /\ pc = "done"
    /\ FieldErrors(params) = <<>>
    /\ JoiDetails(params) # <<>>
    /\ result.kind = "thrown"
    /\ gets = 0

\* C7: an invocation issues at most one GET, exactly one when validation
\* passes and none otherwise, and none after a failed response, a connection
\* failure or a timeout.
C7_AtMostOneGet ==
    /\ gets <= 1
    /\ pc # "idle" => gets = (IF JoiDetails(params) = <<>> THEN 1 ELSE 0)
    /\ (Answered /\ result.kind = "thrown") => gets = 1

C7_Witness ==
    /\ Answered
    /\ answer[1].kind = "failure"
    /\ answer[1].error.request
    /\ result.kind = "thrown"
    /\ gets = 1

\* C8: for a request that was answered, the status alone decides: below 400
\* the response body is returned unchanged, from 400 on the invocation fails
\* with a SpApiClientError whose statusCode is that status.
C8_StatusDecides ==
    (Answered /\ answer[1].kind = "response") =>
        LET r == answer[1].response
        IN  /\ r.status < 400 => result = [kind |-> "returned", value |-> r.data]
            /\ r.status >= 400 =>
                  /\ result.kind = "thrown"
                  /\ result.error.name = "SpApiClientError"
                  /\ result.error.statusCode = r.status

C8_Witness ==
    /\ Answered
    /\ answer[1].kind = "response"
    /\ answer[1].response.status = 400
    /\ result.kind = "thrown"
    /\ result.error.statusCode = 400

(***************************************************************************)
(* Properties of the Error Normalizer (SpecNormalizer).                    *)
(***************************************************************************)
Normalized == nResult # <<>>

HasErrorsSequence(b) ==
    b.t = "object" /\ \E i \in 1..Len(b.o) : b.o[i][1] = "errors" /\ b.o[i][2].t = "array"
ErrorsSequence(b) == b.o[CHOOSE i \in 1..Len(b.o) : b.o[i][1] = "errors"][2].a
HeaderOrAbsent(r, name) == IF name \in DOMAIN r.headers THEN <<r.headers[name]>> ELSE <<>>
BodyPresent(b) == b.t \notin {"undefined", "null"} /\ b # JStr("")
StatusText(status) ==
    IF status \in DOMAIN HttpErrorMessages THEN HttpErrorMessages[status]
    ELSE "HTTP " \o ToString(status) \o " error"

\* C9: for a failed response whose body has an errors sequence, the error's
\* errors is that sequence verbatim, statusCode is the status, requestId is
\* header x-amzn-requestid and rateLimit is header x-amzn-ratelimit-limit,
\* each absent when the header is.
C9_ErrorsVerbatim ==
    (Normalized /\ nError.response # <<>> /\ HasErrorsSequence(nError.response[1].data)) =>
        LET r == nError.response[1]
        IN  /\ nResult[1].errors = ErrorsSequence(r.data)
            /\ nResult[1].statusCode = r.status
            /\ nResult[1].requestId = HeaderOrAbsent(r, "x-amzn-requestid")
            /\ nResult[1].rateLimit = HeaderOrAbsent(r, "x-amzn-ratelimit-limit")

C9_Witness ==
    /\ Normalized
    /\ nError.response # <<>>
    /\ nError.response[1].data = JObj(<< <<"errors", JArr(<<>>)>> >>)
    /\ nError.response[1].headers = ("x-amzn-requestid" :> "req-1")
    /\ nResult[1].errors = <<>>
    /\ nResult[1].rateLimit = <<>>

\* C10: for a failed response whose body is absent or has no errors sequence,
\* the error has statusCode = status and exactly one entry: code HTTP_{status},
\* message the status text of the table (HTTP {status} error off the table),
\* details the JSON text of the body when there is a body and absent otherwise.
C10_FallbackEntry ==
    (Normalized /\ nError.response # <<>> /\ ~HasErrorsSequence(nError.response[1].data)) =>
        LET r == nError.response[1]
        IN  /\ nResult[1].statusCode = r.status
            /\ nResult[1].errors =
                  <<JObj(<< <<"code", JStr("HTTP_" \o ToString(r.status))>>,
                            <<"message", JStr(StatusText(r.status))>>,
                            <<"details", IF BodyPresent(r.data)
                                         THEN JStr(JsonStringify(r.data))
                                         ELSE JUndefined>> >>)>>

\* The code of each entry of an errors sequence.
Codes(errors) == [i \in 1..Len(errors) |-> Get(errors[i], "code")]
Details(errors) == [i \in 1..Len(errors) |-> Get(errors[i], "details")]

\* C11: a failure without a response whose request was sent gives statusCode 0
\* and exactly one error, of code NETWORK_ERROR; a failure with neither gives
\* statusCode 0 and exactly one error, of code REQUEST_SETUP_ERROR; in both,
\* details is the failure's own message and requestId and rateLimit are
\* absent.  A failure with a response is never one of the two, whether or
\* not its request was sent: it carries the status of the response.
C11_NonHttpShapes ==
    Normalized =>
        LET e == nResult[1]
            nonHttp(code) ==
                /\ e.statusCode = 0
                /\ Codes(e.errors) = <<JStr(code)>>
                /\ Details(e.errors) = <<JStr(nError.message)>>
                /\ e.requestId = <<>>
                /\ e.rateLimit = <<>>
        IN  /\ (nError.response = <<>> /\ nError.request) => nonHttp("NETWORK_ERROR")
            /\ (nError.response = <<>> /\ ~nError.request) => nonHttp("REQUEST_SETUP_ERROR")
            /\ nError.response # <<>> =>
                  /\ e.statusCode = nError.response[1].status
                  /\ \A i \in 1..Len(e.errors) :
                        Get(e.errors[i], "code") \notin
                            {JStr("NETWORK_ERROR"), JStr("REQUEST_SETUP_ERROR")}

C11_Witness ==
    /\ Normalized
    /\ nError.response = <<>>
    /\ ~nError.request
    /\ nError.message = "Invalid URL"
    /\ nResult[1].statusCode = 0
    /\ Codes(nResult[1].errors) = <<JStr("REQUEST_SETUP_ERROR")>>

(***************************************************************************)
(* Properties of the failures of searchListingsItems (Spec, SpecLive).     *)
(***************************************************************************)
TimedOut == pc = "done" /\ answer = <<[kind |-> "timeout"]>>

\* C12: when the transport gives no answer within the request's timeout, the
\* invocation fails with a SpApiClientError of statusCode 0 and the single
\* error NETWORK_ERROR (not REQUEST_SETUP_ERROR, not a returned value); and
\* an invocation that awaits the transport does not hang: it comes to its end.
C12_TimeoutIsNetworkError ==
    /\ [](TimedOut =>
            /\ result.kind = "thrown"
            /\ Has(result.error, "statusCode")
            /\ result.error.name = "SpApiClientError"
            /\ result.error.statusCode = 0
            /\ Codes(result.error.errors) = <<JStr("NETWORK_ERROR")>>)
    /\ (pc = "awaiting" ~> pc = "done")

C12_Witness ==
    /\ TimedOut
    /\ request[1].timeout = 30000
    /\ result.kind = "thrown"
    /\ Details(result.error.errors) = <<JStr("timeout of 30000ms exceeded")>>

\* C13: an error raised in the invocation that is no transport failure (the
\* validator's Error) is what the caller gets, the very same value: it is not
\* normalized into a SpApiClientError.
C13_OtherErrorsUnchanged ==
    (pc = "done" /\ validateSearchParamsOrThrow(params) # <<>>) =>
        /\ result = [kind |-> "thrown", error |-> validateSearchParamsOrThrow(params)[1]]
        /\ ~Has(result.error, "statusCode")
        /\ result.error.name # "SpApiClientError"

C13_Witness ==
    /\ pc = "done"
    /\ ~Has(params, "sellerId")
    /\ result.kind = "thrown"
    /\ result.error.message = "Validation failed: sellerId is required"

(***************************************************************************)
(* Properties of the status predicates (SpecError).                        *)
(***************************************************************************)
Classified == eIs # <<>>

\* C14: for every statusCode, isClientError holds iff 400 <= statusCode <= 499,
\* isServerError iff 500 <= statusCode <= 599, isRateLimitError iff
\* statusCode = 429 and isAuthError iff statusCode is 401 or 403; so all four
\* are false for statusCode 0, client and server error never both hold, and
\* rate-limit or auth error implies client error.
C14_StatusPredicates ==
    Classified =>
        LET s == eError.statusCode
            is == eIs[1]
        IN  /\ is.isClientError <=> (400 <= s /\ s <= 499)
            /\ is.isServerError <=> (500 <= s /\ s <= 599)
            /\ is.isRateLimitError <=> s = 429
            /\ is.isAuthError <=> s \in {401, 403}
            /\ s = 0 => is = [isClientError |-> FALSE, isServerError |-> FALSE,
                              isRateLimitError |-> FALSE, isAuthError |-> FALSE]
            /\ ~(is.isClientError /\ is.isServerError)
            /\ (is.isRateLimitError \/ is.isAuthError) => is.isClientError

C14_Witness ==
    /\ Classified
    /\ eError.statusCode = 429
    /\ eIs[1].isRateLimitError
    /\ eIs[1].isClientError
    /\ ~eIs[1].isServerError

(***************************************************************************)
(* Properties of the client's configuration (SpecClient).                  *)
(***************************************************************************)
\* The step is the named operation on the configuration (the invocation in
\* progress, if any, stays as it is).
Step(name) == op'.name = name /\ UNCHANGED callVars

\* The step issues the request of an invocation.
Issues == pc = "idle" /\ pc' = "awaiting"

SameClient == UNCHANGED <<baseUrl, timeout, defaultHeaders>>

\* C15: getConfig leaves the client as it is and returns its baseUrl, timeout
\* and headers; a write to the returned headers (an entry added, overwritten
\* or deleted) leaves the client as it is, so that a request issued or a
\* getConfig called later carries the client's own defaultHeaders.
C15_GetConfigSnapshot ==
    [][/\ Step("getConfig") =>
            /\ SameClient
            /\ snapshot'[1].baseUrl = baseUrl
            /\ snapshot'[1].timeout = timeout
            /\ snapshot'[1].headers = defaultHeaders
       /\ Step("changeSnapshot") => SameClient
       /\ (Issues /\ request' # <<>>) => request'[1].headers = defaultHeaders]_vars

C15_Witness ==
    /\ op.name = "changeSnapshot"
    /\ op.input.delete = {"Content-Type"}
    /\ ~Has(snapshot[1].headers, "Content-Type")
    /\ Has(defaultHeaders, "Content-Type")

Derived == op.name = "withConfig" /\ made[1].kind = "client"

\* C17: withConfig(partial) with headers in partial returns a client whose
\* headers are the client's defaultHeaders overlaid with partial.headers (the
\* partial's value on a key both have, the client's entries it does not name
\* kept), and leaves the client's baseUrl, timeout and defaultHeaders as they
\* were.
C17_WithConfigHeaders ==
    [][(Step("withConfig") /\ Has(op'.input, "headers") /\ made'[1].kind = "client") =>
            /\ made'[1].defaultHeaders = Untagged(op'.input.headers) @@ defaultHeaders
            /\ SameClient]_vars

\* C18: withConfig(partial) returns a client in which every field the partial
\* omits has the value the client has now: baseUrl, timeout, and, headers being
\* omitted, exactly the client's defaultHeaders (a header removed from the
\* client, a default Content-Type or Accept included, is absent).
C18_WithConfigInherits ==
    Derived =>
        /\ ~Has(op.input, "baseUrl") => made[1].baseUrl = baseUrl
        /\ ~Has(op.input, "timeout") => made[1].timeout = timeout
        /\ ~Has(op.input, "headers") => made[1].defaultHeaders = defaultHeaders

\* What the Config Validator says of a baseUrl or a timeout on its own.
RejectedBaseUrl(b) == BaseUrlErrors("baseUrl" :> b) # <<>>
RejectedTimeout(t) == TimeoutErrors("timeout" :> t) # <<>>

\* C19: withConfig(partial) whose baseUrl or timeout the Config Validator
\* rejects (timeout 0, 500 or 300001, an empty baseUrl, a baseUrl that is no
\* URL) throws a configuration error and returns no client.
C19_WithConfigValidates ==
    (/\ op.name = "withConfig"
     /\ \/ Has(op.input, "baseUrl") /\ RejectedBaseUrl(op.input.baseUrl)
        \/ Has(op.input, "timeout") /\ RejectedTimeout(op.input.timeout)) =>
        /\ made[1].kind = "thrown"
        /\ made[1].error.name = "Error"

\* The last operation was new AmazonSpApiClient(config); what the claims
\* say of its config.
Constructed == op.name = "construct"
HttpUrls == {Na, Na \o <<"/">>, Na \o <<"/", "/">>,
             <<"http", ":", "/", "/", "localhost", ":", "3000">>}
BadBaseUrl(c) == ~Has(c, "baseUrl") \/ c.baseUrl \notin HttpUrls
BadTimeout(c) ==
    Has(c, "timeout") /\ (Has(c.timeout, "half") \/ c.timeout.n < 1000 \/ c.timeout.n > 300000)
NonStringHeader(c) ==
    Has(c, "headers") /\ \E name \in DOMAIN c.headers : c.headers[name].t # "string"
EmptyHeader(c) ==
    Has(c, "headers") /\ \E name \in DOMAIN c.headers : c.headers[name] = JStr("")
ConstructionFailed ==
    /\ made[1].kind = "thrown"
    /\ made[1].error.name = "Error"
    /\ gets = 0
    /\ request = <<>>
    /\ baseUrl = Na
    /\ timeout = 30000
    /\ defaultHeaders = DefaultHeaders

ConstructedClient == Constructed /\ made[1].kind = "client"

\* C21: after a successful new AmazonSpApiClient(config) the timeout is
\* config.timeout when given and 30000 when absent; defaultHeaders is
\* {Content-Type: application/json, Accept: application/json} overlaid with
\* config.headers, the config's value on a key both have; baseUrl is
\* config.baseUrl without its trailing "/", and does not end with "/".
C21_ConstructedState ==
    ConstructedClient =>
        LET config == op.input
            given == IF Has(config, "headers") THEN config.headers ELSE None
        IN  /\ timeout = IF Has(config, "timeout") THEN config.timeout.n ELSE 30000
            /\ DOMAIN defaultHeaders = {"Content-Type", "Accept"} \cup DOMAIN given
            /\ \A k \in DOMAIN defaultHeaders :
                  defaultHeaders[k] = IF Has(given, k) THEN given[k].s
                                      ELSE "application/json"
            /\ baseUrl = StripSlash(config.baseUrl)
            /\ baseUrl[Len(baseUrl)] # "/"

(***************************************************************************)
(* Properties of the Query Serializer (SpecSerializer).                    *)
(***************************************************************************)
SequenceFields ==
    {"marketplaceIds", "includedData", "identifiers", "withIssueSeverity",
     "withStatus", "withoutStatus"}
ScalarFields ==
    {"issueLocale", "identifiersType", "variationParentSku", "packageHierarchySku",
     "createdAfter", "createdBefore", "lastUpdatedAfter", "lastUpdatedBefore",
     "sortBy", "sortOrder", "pageSize", "pageToken"}
EnumeratedFields ==
    {"includedData", "withIssueSeverity", "withStatus", "withoutStatus",
     "identifiersType", "sortBy", "sortOrder"}

\* The request of the invocation in progress has been issued.
Issued == pc # "idle" /\ request # <<>>

\* The text of a value of the named field, as the caller gave it.
GivenText(field, v) ==
    IF field = "pageSize" THEN ToString(v)
    ELSE IF field \in EnumeratedFields THEN v
    ELSE Text(v)

\* The texts of the values of the pairs of q that have the key, in order.
RECURSIVE PairsOf(_, _)
PairsOf(q, key) ==
    IF q = <<>> THEN <<>>
    ELSE (IF Head(q)[1] = key THEN <<Text(Head(q)[2])>> ELSE <<>>)
         \o PairsOf(Tail(q), key)

\* The query of the request issued, and the pairs it is written from.
QueryOf(url) ==
    LET q == buildQueryParams(params)
    IN  url = Text(baseUrl) \o "/listings/2021-08-01/items/"
              \o encodeURIComponent(params.sellerId) \o "?"
              \o Join([i \in 1..Len(q) |-> q[i][1] \o "=" \o FormEncode(q[i][2])], "&")

\* C22: the query of the request of every valid record is written from pairs
\* that hold, for each sequence-valued field of length k, exactly k pairs with
\* that key whose values are the elements in the original order (none when
\* the field is absent or empty), for each scalar field exactly one pair with
\* its value iff the field is present, and no other pair; the query of
\* {sellerId: S1, marketplaceIds: [M1]} is exactly marketplaceIds=M1.
C22_Serialization ==
    Issued =>
        LET q == buildQueryParams(params)
        IN  /\ QueryOf(request[1].url)
            /\ \A f \in SequenceFields :
                  PairsOf(q, f) =
                     IF Has(params, f)
                     THEN [i \in 1..Len(params[f]) |-> GivenText(f, params[f][i])]
                     ELSE <<>>
            /\ \A f \in ScalarFields :
                  PairsOf(q, f) =
                     IF Has(params, f) THEN <<GivenText(f, params[f])>> ELSE <<>>
            /\ \A i \in 1..Len(q) : q[i][1] \in SequenceFields \cup ScalarFields
            /\ params = MinimalParams =>
                  request[1].url = Text(baseUrl) \o "/listings/2021-08-01/items/S1"
                                   \o "?marketplaceIds=M1"

C22_Witness ==
    /\ Issued
    /\ Has(params, "includedData")
    /\ params.includedData = <<"summaries", "issues">>
    /\ Has(params, "withoutStatus")
    /\ params.withoutStatus = <<"DISCOVERABLE", "BUYABLE">>
    /\ Has(params, "sortBy")
    /\ request[1].url = Text(baseUrl) \o "/listings/2021-08-01/items/S1"
          \o "?marketplaceIds=M1&includedData=summaries&includedData=issues"
          \o "&withoutStatus=DISCOVERABLE&withoutStatus=BUYABLE&sortBy=sku"

(***************************************************************************)
(* Properties of invocations side by side (SpecConcurrent).                *)
(***************************************************************************)
\* The step starts, settles or finishes invocation i.
Begins(i) == calls[i].pc = "idle" /\ calls'[i].pc # "idle"
Settles(i) == calls[i].pc = "awaiting" /\ calls'[i].pc = "done"
Ends(i) == calls[i].pc = "done" /\ calls'[i].pc = "idle"

OthersUntouched(i) == \A j \in Invocations \ {i} : calls'[j] = calls[j]

\* C23: a step of a searchListingsItems invocation leaves baseUrl, timeout and
\* defaultHeaders as they are, whatever other invocations are in flight, and
\* leaves every other invocation as it is; the request it issues is the one
\* of its own params and the client's fields, its outcome is decided by its
\* own answer alone, and two invocations with the same params and the same
\* answer have the same request and the same outcome.
C23_InvocationsIndependent ==
    /\ [][\A i \in Invocations :
            /\ (Begins(i) \/ Settles(i) \/ Ends(i)) => (SameClient /\ OthersUntouched(i))
            /\ (Begins(i) /\ calls'[i].pc = "awaiting") =>
                  calls'[i].request = <<RequestOf(Origin, calls'[i].params)>>
            /\ Settles(i) =>
                  /\ calls'[i].request = calls[i].request
                  /\ calls'[i].params = calls[i].params
                  /\ calls'[i].result.kind = "returned" <=>
                        (/\ calls'[i].answer[1].kind = "response"
                         /\ calls'[i].answer[1].response.status < 400)]_vars
    /\ [](\A i, j \in Invocations :
            (/\ calls[i].pc # "idle"
             /\ calls[i].pc = calls[j].pc
             /\ calls[i].params = calls[j].params
             /\ calls[i].answer = calls[j].answer) =>
                /\ calls[i].request = calls[j].request
                /\ calls[i].result = calls[j].result)

C23_Witness ==
    /\ calls[1].pc = "done"
    /\ calls[1].params = MinimalParams
    /\ calls[1].result.kind = "thrown"
    /\ calls[1].result.error.statusCode = 500
    /\ calls[2].pc = "awaiting"
    /\ calls[2].params.sellerId = S1Padded
    /\ calls[2].request[1].headers = ("h" :> "v") @@ DefaultHeaders
    /\ defaultHeaders = ("h" :> "v") @@ DefaultHeaders

(***************************************************************************)
(* Properties of a client and the client derived from it (SpecIsolation).  *)
(***************************************************************************)
\* The step is updateHeaders or removeHeaders on the named client, both
\* clients being there.
MutationOn(name) ==
    /\ derived # <<>>
    /\ op' # op
    /\ op'.name \in {"updateHeaders", "removeHeaders"}
    /\ op'.client = name

\* C24: after withConfig, updateHeaders or removeHeaders on one of the two
\* clients leaves the defaultHeaders of the other as they are, and the
\* requests issued as they are; a request a client issues carries the
\* headers of that client, whatever was done to the other.
C24_WithConfigIsolates ==
    [][/\ MutationOn("origin") => (derived' = derived /\ calls' = calls)
       /\ MutationOn("derived") => (SameClient /\ calls' = calls)
       /\ \A i \in Invocations :
             (Begins(i) /\ calls'[i].pc = "awaiting") =>
                 /\ SameClient
                 /\ derived' = derived
                 /\ calls'[i].request[1].headers =
                       ClientOf(calls'[i].client).defaultHeaders]_vars

C24_Witness ==
    /\ derived # <<>>
    /\ op.name = "removeHeaders"
    /\ op.client = "derived"
    /\ op.input = <<"Accept">>
    /\ ~Has(derived[1].defaultHeaders, "Accept")
    /\ ~Has(derived[1].defaultHeaders, "h")
    /\ defaultHeaders = ("h" :> "v") @@ DefaultHeaders
    /\ \E i, j \in Invocations :
          /\ calls[i].pc = "awaiting"
          /\ calls[i].client = "origin"
          /\ calls[i].request[1].headers = defaultHeaders
          /\ calls[j].pc = "awaiting"
          /\ calls[j].client = "derived"
          /\ Has(calls[j].request[1].headers, "Accept")
          /\ ~Has(calls[j].request[1].headers, "h")

(***************************************************************************)
(* Properties of the two cross-field rules together (SpecValidator).       *)
(***************************************************************************)
\* C25: a record whose field rules all pass and that violates both cross-field
\* rules (identifiers non-empty, identifiersType absent, variationParentSku or
\* packageHierarchySku present) is rejected with both the
\* conditional-requirement message and the mutual-exclusivity message.
C25_BothCrossFieldRules ==
    (/\ Validated
     /\ FieldErrors(vParams) = <<>>
     /\ NonEmptyIdentifiers(vParams)
     /\ ~Has(vParams, "identifiersType")
     /\ Has(vParams, "variationParentSku") \/ Has(vParams, "packageHierarchySku")) =>
        /\ Rejected
        /\ RequiredMessage \in ReportedMessages
        /\ ExclusiveMessage(ExpectedNames(ExclusiveSet(vParams))) \in ReportedMessages

(***************************************************************************)
(* Properties of the request against the validated record (SpecSerializer). *)
(***************************************************************************)
\* C26: for every record that passes validation, the sellerId in the path of
\* the request and every text in its query are those of the record the
\* Parameter Validator returns, that is, trimmed: a sellerId or a marketplace
\* ID given with blanks around it is sent without them.
C26_RequestFromNormalized ==
    Issued =>
        LET value == validateSearchParams(params).value
        IN  request[1].url =
                Text(baseUrl) \o "/listings/2021-08-01/items/"
                \o encodeURIComponent(value.sellerId)
                \o "?" \o buildQueryString(value)

(***************************************************************************)
(* Properties of the entries of a normalized error (SpecNormalizer).       *)
(***************************************************************************)
\* The failed response handed in has a body whose errors sequence is empty.
EmptyErrorsBody ==
    /\ nError.response # <<>>
    /\ HasErrorsSequence(nError.response[1].data)
    /\ ErrorsSequence(nError.response[1].data) = <<>>

\* C27 as stated: every error the Error Normalizer produces, a failed
\* response whose body has an empty errors sequence included, carries at
\* least one entry, and getFirstError() is not undefined.
C27_Original ==
    Normalized =>
        /\ Len(nResult[1].errors) >= 1
        /\ getFirstError(nResult[1]) # <<>>

\* C27, amended: every error the Error Normalizer produces carries at least
\* one entry, and getFirstError() gives the first of them, except for a
\* failed response whose body has an empty errors sequence: then the error
\* has no entry and getFirstError() is undefined.
C27_AtLeastOneEntry ==
    Normalized =>
        IF EmptyErrorsBody
        THEN nResult[1].errors = <<>> /\ getFirstError(nResult[1]) = <<>>
        ELSE /\ Len(nResult[1].errors) >= 1
             /\ getFirstError(nResult[1]) = <<nResult[1].errors[1]>>

C27_Witness ==
    /\ Normalized
    /\ EmptyErrorsBody
    /\ nError.response[1].status = 503
    /\ nResult[1].statusCode = 503
    /\ nResult[1].errors = <<>>
    /\ getFirstError(nResult[1]) = <<>>

(***************************************************************************)
(* Invariants of every client (SpecClient).                                *)
(***************************************************************************)
\* What the claim says of the fields of a client.
ValidFields(b, t) ==
    /\ t \in TimeoutMin..TimeoutMax
    /\ IsHttpUri(b)
    /\ validateClientConfig(("baseUrl" :> b) @@ ("timeout" :> JNum(t))) = <<>>

\* The step is the first construction, which makes the client.
Constructs == op.name = "none" /\ op'.name = "construct"

\* C28: the client, and every client a constructor call or withConfig
\* returns, has a timeout that is an integer in [1000, 300000] and a baseUrl
\* that is an http/https URL the Config Validator accepts; once the client is
\* made no operation (getConfig, a write to what it returned, updateHeaders,
\* removeHeaders, withConfig, searchListingsItems) changes its baseUrl or its
\* timeout, and its defaultHeaders change by updateHeaders and removeHeaders
\* only.
C28_ClientInvariant ==
    /\ [](/\ ValidFields(baseUrl, timeout)
          /\ (made # <<>> /\ made[1].kind = "client") =>
                /\ ValidFields(made[1].baseUrl, made[1].timeout)
                /\ Has(op.input, "timeout") /\ Truthy(op.input.timeout) =>
                      ~Has(op.input.timeout, "half"))
    /\ [][~Constructs =>
            /\ UNCHANGED <<baseUrl, timeout>>
            /\ defaultHeaders' # defaultHeaders =>
                  op'.name \in {"updateHeaders", "removeHeaders"}]_vars

C28_Witness ==
    /\ op.name = "withConfig"
    /\ made[1].kind = "client"
    /\ made[1].timeout = 10000
    /\ made[1].baseUrl = <<"https", ":", "/", "/", "sellingpartnerapi-eu.amazon.com">>
    /\ timeout = TimeoutMax
    /\ baseUrl = Na
    /\ Has(defaultHeaders, "h")
    /\ ~Has(defaultHeaders, "Accept")

====
